---- MODULE Spec2Model ----
(***************************************************************************)
(* A model of the Lox tree-walking interpreter of this repository: the     *)
(* static resolver (src/src/resolver/mod.rs), the environments             *)
(* (src/src/statement/environment/mod.rs), the runtime values              *)
(* (src/src/interpreter/values.rs) and the evaluator                       *)
(* (src/src/interpreter/mod.rs, src/src/statement/mod.rs).                 *)
(*                                                                         *)
(* Rc<RefCell<Environment>> and Rc<RefCell<Value>> are modelled as indices *)
(* into two heaps (envs, cells): cloning an Rc copies the index, cloning a *)
(* Value copies the value.  Numbers are integers.  Every handler of the    *)
(* evaluator is an operator from an interpreter state to a result that     *)
(* carries the next interpreter state, so that the handler's control flow  *)
(* (the ? operator, early returns, panics) is the operator's control flow. *)
(*                                                                         *)
(* Fields named id, log, act and nextAct are history: they do not exist in *)
(* the program and are never read by a definition that models code.        *)
(***************************************************************************)
EXTENDS Integers, Sequences, FiniteSets, TLC

\* ------------------------------------------------------------------ bounds
\* Most iterations of one while statement the model follows.
MaxIter == 3
\* Deepest nesting of blocks the program families wrap a statement in.
MaxDepth == 2
\* Number of source lines a token may sit on.
MaxLine == 2
\* Most calls of a closure a program family makes.
MaxCalls == 3
\* Most scopes on the resolver's scope stack in ResolverSpec.
MaxScopes == 2

\* --------------------------------------------------------------------- AST
\* Expr (parser/expr.rs; the Get, Set and This variants are the ones the
\* parser and the evaluator build and match).  One record shape for every
\* variant: op is the operator's token type or the literal's variant, name a
\* token's lexeme or a string literal, line the token's line, num a number
\* literal, kids the sub-expressions.  id numbers the node: history only.
Expr(kind, op, name, line, num, kids, id) ==
    [kind |-> kind, op |-> op, name |-> name, line |-> line, num |-> num,
     kids |-> kids, id |-> id]

Num(n) == Expr("Literal", "NUMBER", "", 0, n, <<>>, 0)
Str(s) == Expr("Literal", "STRING", s, 0, 0, <<>>, 0)
True == Expr("Literal", "True", "", 0, 0, <<>>, 0)
False == Expr("Literal", "False", "", 0, 0, <<>>, 0)
Null == Expr("Literal", "Null", "", 0, 0, <<>>, 0)
Variable(name, line, id) == Expr("Variable", "IDENTIFIER", name, line, 0, <<>>, id)
This(line, id) == Expr("This", "THIS", "this", line, 0, <<>>, id)
Assignment(name, line, value, id) ==
    Expr("Assignment", "IDENTIFIER", name, line, 0, <<value>>, id)
Unary(op, line, right) == Expr("Unary", op, "", line, 0, <<right>>, 0)
Binary(left, op, line, right) == Expr("Binary", op, "", line, 0, <<left, right>>, 0)
Logical(left, op, line, right) == Expr("Logical", op, "", line, 0, <<left, right>>, 0)
Grouping(inner) == Expr("Grouping", "", "", 0, 0, <<inner>>, 0)
\* kids[1] is the callee, the rest are the arguments; line is the paren's.
Call(callee, line, arguments) == Expr("Call", "RIGHT_PAREN", ")", line, 0, <<callee>> \o arguments, 0)
Get(object, name, line) == Expr("Get", "IDENTIFIER", name, line, 0, <<object>>, 0)
\* kids[1] is the object, kids[2] the value.
Set(object, name, line, value) == Expr("Set", "IDENTIFIER", name, line, 0, <<object, value>>, 0)

\* Statement (statement/mod.rs 10-49), one record shape for every variant.
Stmt(kind, name, line, params, exprs, body, els) ==
    [kind |-> kind, name |-> name, line |-> line, params |-> params,
     exprs |-> exprs, body |-> body, els |-> els]

PrintStatement(e) == Stmt("Print", "", 0, <<>>, <<e>>, <<>>, <<>>)
ExprStatement(e) == Stmt("Expression", "", 0, <<>>, <<e>>, <<>>, <<>>)
\* params are the parameters' lexemes.
FunctionDecl(name, line, params, body) == Stmt("Function", name, line, params, <<>>, body, <<>>)
\* body holds the methods, each a FunctionDecl.
ClassDecl(name, line, methods) == Stmt("Class", name, line, <<>>, <<>>, methods, <<>>)
ReturnStatement(line, value) == Stmt("Return", "return", line, <<>>, value, <<>>, <<>>)
IfStatement(condition, then_branch, else_branch) ==
    Stmt("If", "", 0, <<>>, <<condition>>, <<then_branch>>, else_branch)
WhileStatement(condition, body) == Stmt("While", "", 0, <<>>, <<condition>>, <<body>>, <<>>)
Break == Stmt("Break", "", 0, <<>>, <<>>, <<>>, <<>>)
Continue == Stmt("Continue", "", 0, <<>>, <<>>, <<>>, <<>>)
\* exprs is <<>> (no initializer) or <<initializer>>.
VarDeclaration(name, line, initializer) == Stmt("Var", name, line, <<>>, initializer, <<>>, <<>>)
BlockStatement(statements) == Stmt("Block", "", 0, <<>>, <<>>, statements, <<>>)

\* The key of the depth map.  Expr derives PartialEq, Eq and Hash
\* (parser/expr.rs 5, 161-201): two nodes are the same key when their variant,
\* their tokens (type, lexeme, line) and their sub-expressions are equal.  The
\* node's position in the tree is no part of it.
RECURSIVE ExprKey(_)
ExprKey(e) ==
    [e EXCEPT !.id = 0, !.kids = [i \in DOMAIN e.kids |-> ExprKey(e.kids[i])]]

\* ------------------------------------------------------------------ values
\* Value (interpreter/values.rs 8-26).
Nil == [kind |-> "Nil"]
Double(n) == [kind |-> "Double", n |-> n]
Boolean(b) == [kind |-> "Boolean", b |-> b]
String(s) == [kind |-> "String", s |-> s]
NativeFn == [kind |-> "NativeFn", arity |-> 0]
\* LoxFunction: closure is an index into envs (the Rc is cloned, not the
\* environment).
LoxFunction_new(declaration, closure, is_initializer) ==
    [kind |-> "Function", declaration |-> declaration, closure |-> closure,
     is_initializer |-> is_initializer]
\* LoxClass: methods maps a method's name to its LoxFunction.
LoxClass_new(name, methods) == [kind |-> "Class", name |-> name, methods |-> methods]
\* LoxInstance: the class and the fields are held by value.
\* oid numbers the construction the instance came from: history only.
LoxInstance_new(class) ==
    [kind |-> "Instance", class |-> class, fields |-> <<>>, oid |-> 0]

\* ValueCell(Rc<RefCell<Value>>): ref is the index of a cell an environment
\* holds (or held), or 0 for a cell made by ValueCell::new for this result
\* alone, whose value is v.
Tmp(v) == [ref |-> 0, v |-> v]
Ref(c) == [ref |-> c, v |-> Nil]

\* Value::is_truthy
is_truthy(v) ==
    ~ (v.kind = "Nil" \/ (v.kind = "Boolean" /\ ~ v.b))

\* A variant of LoxFunction_eq that compares the declarations.
LoxFunction_eq_declaration(f, g) == f.declaration = g.declaration

\* impl PartialEq for LoxFunction: eq is false for every pair.
LoxFunction_eq(f, g) == FALSE

\* #[derive(PartialEq)] on Value, Native, LoxClass, LoxInstance; the HashMaps
\* are equal when they have the same keys and equal values under each key.
RECURSIVE Value_eq(_, _)
Value_eq(a, b) ==
    IF a.kind # b.kind THEN FALSE
    ELSE CASE a.kind = "Nil" -> TRUE
           [] a.kind = "Double" -> a.n = b.n
           [] a.kind = "Boolean" -> a.b = b.b
           [] a.kind = "String" -> a.s = b.s
           [] a.kind = "NativeFn" -> a.arity = b.arity
           [] a.kind = "Function" -> LoxFunction_eq(a, b)
           [] a.kind = "Class" ->
                /\ a.name = b.name
                /\ DOMAIN a.methods = DOMAIN b.methods
                /\ \A m \in DOMAIN a.methods : LoxFunction_eq(a.methods[m], b.methods[m])
           [] a.kind = "Instance" ->
                /\ Value_eq(a.class, b.class)
                /\ DOMAIN a.fields = DOMAIN b.fields
                /\ \A f \in DOMAIN a.fields : Value_eq(a.fields[f], b.fields[f])

\* impl Display for Value, LoxFunction::to_string, LoxClass::to_string,
\* LoxInstance::to_string.
Value_fmt(v) ==
    CASE v.kind = "Boolean" -> IF v.b THEN "true" ELSE "false"
      [] v.kind = "Double" -> ToString(v.n)
      [] v.kind = "Nil" -> "nil"
      [] v.kind = "NativeFn" -> "<native fn>"
      [] v.kind = "Function" -> "<fn " \o v.declaration.name \o ">"
      [] v.kind = "Class" -> v.name
      [] v.kind = "Instance" -> v.class.name \o " instance"
      [] v.kind = "String" -> v.s

\* ValueError (interpreter/error.rs, and the Continue and Return variants the
\* evaluator raises and matches).
Std(line, message) == [kind |-> "Std", line |-> line, message |-> message, v |-> Nil]
ErrBreak == [kind |-> "Break", line |-> 0, message |-> "", v |-> Nil]
ErrContinue == [kind |-> "Continue", line |-> 0, message |-> "", v |-> Nil]
ErrReturn(v) == [kind |-> "Return", line |-> 0, message |-> "", v |-> v]

\* ValueResult<T> and a panic.  Ok carries a ValueCell (handlers of
\* expressions) or Tmp(Nil) (handlers of statements, which return ()).
Ok(st, vc) == [tag |-> "Ok", st |-> st, vc |-> vc, err |-> ErrBreak, msg |-> ""]
Err(st, e) == [tag |-> "Err", st |-> st, vc |-> Tmp(Nil), err |-> e, msg |-> ""]
Panic(st, msg) == [tag |-> "Panic", st |-> st, vc |-> Tmp(Nil), err |-> ErrBreak, msg |-> msg]

\* A result that ends the evaluation: a panic, or a loop not followed further.
Aborted(r) == r.tag \in {"Panic", "Cut"}

\* ValueError::error: one line on standard error.
ValueError_error(st, e) ==
    [st EXCEPT !.errs = Append(@,
        CASE e.kind = "Std" -> e.message \o "\n[line " \o ToString(e.line) \o "]"
          [] e.kind = "Break" -> "'BREAK' value error detected"
          [] OTHER -> e.kind)]

\* ------------------------------------------------------------ environments
\* The interpreter state threaded through the handlers:
\*   envs         the Environments allocated so far; enclosing is 0 for None
\*   cells        the ValueCells environments hold or held
\*   environment  Interpreter::environment, globals  Interpreter::globals
\*   locals       Interpreter::locals, a sequence of [key, depth]
\*   out, errs    standard output and standard error
\*   borrowed     the cells under a RefCell::borrow_mut
\*   loops        history: the while statements being executed, innermost
\*                last, each with the activation (act) that executes it
Event(st, e) == [st EXCEPT !.log = Append(@, e)]

\* EnvCell::new, EnvCell::with_enclosing, Environment::with_enclosing: a new
\* environment; its index is Len(st.envs) + 1.
EnvCell_with_enclosing(st, enclosing) ==
    [st EXCEPT !.envs = Append(@, [values |-> <<>>, enclosing |-> enclosing])]

\* Environment::define: a new cell under name, replacing any other.
Environment_define(st, e, name, value) ==
    LET c == Len(st.cells) + 1
    IN  Event([st EXCEPT !.cells = Append(@, value),
                         !.envs[e].values = (name :> c) @@ @],
              [ev |-> "write", env |-> e, name |-> name, v |-> value,
               act |-> st.act])

\* Environment::get: the cell of the nearest environment of the chain that
\* holds name.
RECURSIVE Environment_get(_, _, _)
Environment_get(st, e, name) ==
    IF name \in DOMAIN st.envs[e].values
    THEN [found |-> TRUE, cell |-> st.envs[e].values[name], env |-> e]
    ELSE IF st.envs[e].enclosing # 0
         THEN Environment_get(st, st.envs[e].enclosing, name)
         ELSE [found |-> FALSE, cell |-> 0, env |-> 0]

\* Environment::assign: a new cell in the nearest environment of the chain
\* that holds name.
RECURSIVE Environment_assign(_, _, _, _)
Environment_assign(st, e, name, value) ==
    IF name \in DOMAIN st.envs[e].values
    THEN [ok |-> TRUE, st |-> Environment_define(st, e, name, value)]
    ELSE IF st.envs[e].enclosing # 0
         THEN Environment_assign(st, st.envs[e].enclosing, name, value)
         ELSE [ok |-> FALSE, st |-> st]

\* EnvCell::ancestor: distance enclosing hops; 0 when the chain ends before
\* (the expect panics).
RECURSIVE EnvCell_ancestor(_, _, _)
EnvCell_ancestor(st, e, distance) ==
    IF distance = 0 THEN e
    ELSE IF st.envs[e].enclosing = 0 THEN 0
         ELSE EnvCell_ancestor(st, st.envs[e].enclosing, distance - 1)

\* EnvCell::get_at: ok is FALSE when ancestor or the lookup panics.
EnvCell_get_at(st, e, distance, name) ==
    LET a == EnvCell_ancestor(st, e, distance)
    IN  IF a # 0 /\ name \in DOMAIN st.envs[a].values
        THEN [ok |-> TRUE, cell |-> st.envs[a].values[name], env |-> a]
        ELSE [ok |-> FALSE, cell |-> 0, env |-> a]

\* EnvCell::assign_at: inserts into the ancestor's map, whether name is there
\* or not; ok is FALSE when ancestor panics.
EnvCell_assign_at(st, e, distance, name, value) ==
    LET a == EnvCell_ancestor(st, e, distance)
    IN  IF a # 0
        THEN [ok |-> TRUE, st |-> Environment_define(st, a, name, value)]
        ELSE [ok |-> FALSE, st |-> st]

\* ---------------------------------------------------------------- resolver
\* The Resolver's state:
\*   scopes            Resolver::scopes, innermost last; a scope maps a name
\*                     to "defined?"
\*   current_function  NONE, FUNCTION, METHOD or INITIALIZER
\*   current_class     NONE or CLASS
\*   locals            the Interpreter::locals the resolver fills
\*   errs              what ResolverError::error printed
\* A handler returns [ok, r]: ok is FALSE for Err(_), which every caller
\* passes on with the ? operator.

\* HashMap::insert on Interpreter::locals (Interpreter::resolve_expr_depth):
\* the entry of an equal key is replaced.
resolve_expr_depth(locals, key, depth) ==
    IF \E i \in DOMAIN locals : locals[i].key = key
    THEN [i \in DOMAIN locals |->
            IF locals[i].key = key THEN [key |-> key, depth |-> depth] ELSE locals[i]]
    ELSE Append(locals, [key |-> key, depth |-> depth])

\* HashMap::get on Interpreter::locals: -1 stands for None.
locals_get(locals, key) ==
    IF \E i \in DOMAIN locals : locals[i].key = key
    THEN locals[CHOOSE i \in DOMAIN locals : locals[i].key = key].depth
    ELSE -1

\* Resolver::begin_scope
begin_scope(r) == [r EXCEPT !.scopes = Append(@, <<>>)]

\* Resolver::end_scope: Vec::pop, nothing on an empty stack.
end_scope(r) ==
    IF r.scopes = <<>> THEN r
    ELSE [r EXCEPT !.scopes = SubSeq(@, 1, Len(@) - 1)]

\* Resolver::error
Resolver_error(r, message) == [r EXCEPT !.errs = Append(@, message)]

\* A variant of declare that replaces an entry of the innermost scope.
declare_again(r, name) ==
    IF r.scopes = <<>> THEN [ok |-> TRUE, r |-> r]
    ELSE [ok |-> TRUE, r |-> [r EXCEPT !.scopes[Len(r.scopes)] = (name :> FALSE) @@ @]]

\* Resolver::declare
declare(r, name) ==
    IF r.scopes = <<>> THEN [ok |-> TRUE, r |-> r]
    ELSE IF name \in DOMAIN r.scopes[Len(r.scopes)]
         THEN [ok |-> FALSE,
               r |-> Resolver_error(r, "Already a variable with this name in this scope")]
         ELSE [ok |-> TRUE,
               r |-> [r EXCEPT !.scopes[Len(r.scopes)] = (name :> FALSE) @@ @]]

\* Resolver::define
define(r, name) ==
    IF r.scopes = <<>> THEN r
    ELSE [r EXCEPT !.scopes[Len(r.scopes)] = (name :> TRUE) @@ @]

\* A resolve_local that searches the stack from the outermost scope inward.
resolve_local_depth_outermost(scopes, name, i) ==
    LET hits == {j \in 1..i : name \in DOMAIN scopes[j]}
    IN  IF hits = {} THEN -1
        ELSE Len(scopes) - (CHOOSE j \in hits : \A k \in hits : j <= k)

\* The loop of Resolver::resolve_local from index i (1-based; the code's
\* index is i - 1) outward: -1 when no scope from i down holds name.
RECURSIVE resolve_local_depth(_, _, _)
resolve_local_depth(scopes, name, i) ==
    IF i = 0 THEN -1
    ELSE IF name \in DOMAIN scopes[i] THEN Len(scopes) - i
         ELSE resolve_local_depth(scopes, name, i - 1)

\* Resolver::resolve_local
resolve_local(r, expr, name) ==
    LET d == resolve_local_depth(r.scopes, name, Len(r.scopes))
        r1 == [r EXCEPT !.log = Append(@, [ev |-> "resolve", id |-> expr.id,
                                           key |-> ExprKey(expr), depth |-> d,
                                           scopes |-> r.scopes, name |-> name,
                                           before |-> r.locals])]
    IN  IF d >= 0
        THEN [r1 EXCEPT !.locals = resolve_expr_depth(@, ExprKey(expr), d)]
        ELSE r1

\* ResolverResult<()>: Ok with the resolver's state, or Err.
ROk(r) == [ok |-> TRUE, r |-> r]
RErr(r, message) == [ok |-> FALSE, r |-> Resolver_error(r, message)]
\* The ? operator on a ResolverResult: an Err is returned, Ok goes on.
RTry(a, K(_)) == IF a.ok THEN K(a.r) ELSE a

RECURSIVE resolve_statements(_, _, _)
RECURSIVE resolve_statement(_, _)
RECURSIVE resolve_expr(_, _)
RECURSIVE resolve_exprs_range(_, _, _, _)
RECURSIVE resolve_params(_, _, _)
RECURSIVE resolve_methods(_, _, _)

\* The loop of Resolver::resolve_statements from statement i on.
resolve_statements(r, statements, i) ==
    IF i > Len(statements) THEN ROk(r)
    ELSE RTry(resolve_statement(r, statements[i]),
              LAMBDA r1 : resolve_statements(r1, statements, i + 1))

\* The loop over the arguments in Resolver::resolve_expr_call, and the two
\* operands of a binary or logical expression.
\* exprs[i], .., exprs[j] one after the other with ?, written as the first
\* half and then the second half so that long argument lists nest little.
resolve_exprs_range(r, exprs, i, j) ==
    IF i > j THEN ROk(r)
    ELSE IF i = j THEN resolve_expr(r, exprs[i])
    ELSE RTry(resolve_exprs_range(r, exprs, i, (i + j) \div 2),
              LAMBDA r1 : resolve_exprs_range(r1, exprs, (i + j) \div 2 + 1, j))

resolve_exprs(r, exprs, i) == resolve_exprs_range(r, exprs, i, Len(exprs))

\* The loop over the parameters in Resolver::resolve_func.
resolve_params(r, params, i) ==
    IF i > Len(params) THEN ROk(r)
    ELSE RTry(declare(r, params[i]),
              LAMBDA r1 : resolve_params(define(r1, params[i]), params, i + 1))

\* A variant of function_restore that leaves the mode of the function that
\* ends.
function_restore_none(r, enclosing_function) == r

\* The end of Resolver::resolve_func: self.current_function =
\* enclosing_function.
function_restore(r, enclosing_function) ==
    [r EXCEPT !.current_function = enclosing_function]

\* Resolver::resolve_func
resolve_func(r, function, function_type) ==
    RTry(resolve_params(begin_scope([r EXCEPT !.current_function = function_type]),
                        function.params, 1), LAMBDA r1 :
    RTry(resolve_statements(r1, function.body, 1), LAMBDA r2 :
         ROk(function_restore(end_scope(r2), r.current_function))))

\* The loop over the methods in Resolver::resolve_class_decl.
resolve_methods(r, methods, i) ==
    IF i > Len(methods) THEN ROk(r)
    ELSE RTry(resolve_func(r, methods[i],
                           IF methods[i].name = "init" THEN "INITIALIZER" ELSE "METHOD"),
              LAMBDA r1 : resolve_methods(r1, methods, i + 1))

\* Resolver::resolve_block_statement
resolve_block_statement(r, s) ==
    RTry(resolve_statements(begin_scope(r), s.body, 1), LAMBDA r1 : ROk(end_scope(r1)))

\* The scope Resolver::resolve_class_decl begins, with "this" in it.
class_scope(r) ==
    [r EXCEPT !.scopes = Append(@, "this" :> TRUE)]

\* A variant of class_restore that leaves the mode of the class that ends.
class_restore_none(r, enclosing_class) == r

\* The end of Resolver::resolve_class_decl: self.current_class =
\* enclosing_class.
class_restore(r, enclosing_class) == [r EXCEPT !.current_class = enclosing_class]

\* Resolver::resolve_class_decl
resolve_class_decl(r, s) ==
    RTry(declare([r EXCEPT !.current_class = "CLASS"], s.name), LAMBDA r1 :
    RTry(resolve_methods(class_scope(define(r1, s.name)), s.body, 1), LAMBDA r2 :
         ROk(class_restore(end_scope(r2), r.current_class))))

\* Resolver::resolve_func_statement
resolve_func_statement(r, s) ==
    RTry(declare(r, s.name), LAMBDA r1 : resolve_func(define(r1, s.name), s, "FUNCTION"))

\* Resolver::resolve_if_statement
resolve_if_statement(r, s) ==
    RTry(resolve_expr(r, s.exprs[1]), LAMBDA r1 :
    RTry(resolve_statement(r1, s.body[1]), LAMBDA r2 :
         IF s.els # <<>> THEN resolve_statement(r2, s.els[1]) ELSE ROk(r2)))

\* Resolver::resolve_return_statement
resolve_return_statement(r, s) ==
    IF r.current_function = "NONE"
    THEN RErr(r, "Can't return from top-level code.")
    ELSE IF s.exprs # <<>>
         THEN IF r.current_function = "INITIALIZER"
              THEN RErr(r, "Can't return from an initializer.")
              ELSE resolve_expr(r, s.exprs[1])
         ELSE ROk(r)

\* Resolver::resolve_var_statement
resolve_var_statement(r, s) ==
    RTry(declare(r, s.name), LAMBDA r1 :
         IF s.exprs # <<>>
         THEN RTry(resolve_expr(r1, s.exprs[1]), LAMBDA r2 : ROk(define(r2, s.name)))
         ELSE ROk(define(r1, s.name)))

\* Resolver::resolve_while_statement
resolve_while_statement(r, s) ==
    RTry(resolve_expr(r, s.exprs[1]), LAMBDA r1 : resolve_statement(r1, s.body[1]))

\* Resolver::resolve_expr_assignment
resolve_expr_assignment(r, expr) ==
    RTry(resolve_expr(r, expr.kids[1]),
         LAMBDA r1 : ROk(resolve_local(r1, expr, expr.name)))

\* Resolver::resolve_expr_set: the value, then the object.
resolve_expr_set(r, expr) ==
    RTry(resolve_expr(r, expr.kids[2]), LAMBDA r1 : resolve_expr(r1, expr.kids[1]))

\* Resolver::resolve_expr_this
resolve_expr_this(r, expr) ==
    IF r.current_class = "NONE"
    THEN RErr(r, "Can't use 'this' outside of a class")
    ELSE ROk(resolve_local(r, expr, expr.name))

\* A variant of resolve_expr_variable without the check of the innermost
\* scope.
resolve_expr_variable_unchecked(r, expr) == ROk(resolve_local(r, expr, expr.name))

\* Resolver::resolve_expr_variable
resolve_expr_variable(r, expr) ==
    IF /\ r.scopes # <<>>
       /\ expr.name \in DOMAIN r.scopes[Len(r.scopes)]
       /\ ~ r.scopes[Len(r.scopes)][expr.name]
    THEN RErr(r, "Can't read local variable in its own initializer")
    ELSE ROk(resolve_local(r, expr, expr.name))

\* Resolver::resolve_statement
resolve_statement(r, statement) ==
    CASE statement.kind = "Block" -> resolve_block_statement(r, statement)
      [] statement.kind = "Break" -> ROk(r)
      [] statement.kind = "Continue" -> ROk(r)
      [] statement.kind = "If" -> resolve_if_statement(r, statement)
      [] statement.kind = "Print" -> resolve_expr(r, statement.exprs[1])
      [] statement.kind = "Return" -> resolve_return_statement(r, statement)
      [] statement.kind = "While" -> resolve_while_statement(r, statement)
      [] statement.kind = "Function" -> resolve_func_statement(r, statement)
      [] statement.kind = "Class" -> resolve_class_decl(r, statement)
      [] statement.kind = "Expression" -> resolve_expr(r, statement.exprs[1])
      [] statement.kind = "Var" -> resolve_var_statement(r, statement)

\* Resolver::resolve_expr (with resolve_expr_binary, _call, _get, _grouping,
\* _literal, _logical and _unary, which only resolve their sub-expressions
\* in order; a Get resolves its object alone).
resolve_expr(r, expr) ==
    CASE expr.kind = "Assignment" -> resolve_expr_assignment(r, expr)
      [] expr.kind = "Set" -> resolve_expr_set(r, expr)
      [] expr.kind = "This" -> resolve_expr_this(r, expr)
      [] expr.kind = "Variable" -> resolve_expr_variable(r, expr)
      [] expr.kind = "Literal" -> ROk(r)
      [] OTHER -> resolve_exprs(r, expr.kids, 1)

\* Resolver::new around Interpreter::new (its locals are empty).
Resolver_new ==
    [scopes |-> <<>>, current_function |-> "NONE", current_class |-> "NONE",
     locals |-> <<>>, errs |-> <<>>, log |-> <<>>]

\* --------------------------------------------------------------- evaluator
\* Interpreter::new: globals, a first environment enclosing it that is
\* dropped again, clock defined in globals, environment = globals.
Interpreter_new ==
    LET st0 == [envs |-> <<[values |-> <<>>, enclosing |-> 0],
                           [values |-> <<>>, enclosing |-> 1]>>,
                cells |-> <<>>, environment |-> 2, globals |-> 1,
                locals |-> <<>>, out |-> <<>>, errs |-> <<>>, borrowed |-> {},
                log |-> <<>>, act |-> 0, nextAct |-> 1, nextObj |-> 1,
                loops |-> <<>>, nextLoop |-> 1]
    IN  [Environment_define(st0, 1, "clock", NativeFn) EXCEPT !.environment = 1]

\* ValueCell::value: the value in the cell, cloned.  RefCell::borrow panics
\* while the cell is mutably borrowed.
ValueCell_borrowed(st, vc) == vc.ref # 0 /\ vc.ref \in st.borrowed
ValueCell_value(st, vc) == IF vc.ref = 0 THEN vc.v ELSE st.cells[vc.ref]

\* Interpreter::error: reports the error where it is made and returns it.
Interpreter_error(st, line, message) ==
    Err(ValueError_error(st, Std(line, message)), Std(line, message))

\* check_number_operands (interpreter/error.rs)
check_number_operands(left, right) == left.kind = "Double" /\ right.kind = "Double"

\* A variant of divide that yields a value for every denominator.
divide_unchecked(st, o, l, r) ==
    Ok(st, Tmp(Double(IF r = 0 THEN 0 ELSE l \div r)))

\* The SLASH arm of Interpreter::interpret_expr_binary for two numbers.
\* The quotient of two integers stands for the f64 quotient.
divide(st, o, l, r) ==
    IF r = 0 THEN Err(st, Std(o.line, "Denominator cannot be 0"))
    ELSE Ok(st, Tmp(Double(l \div r)))

\* The match on the operator in Interpreter::interpret_expr_binary.
binary_operator(st, o, left, right) ==
    LET numbers(v) ==
            IF check_number_operands(left, right) THEN Ok(st, Tmp(v))
            ELSE Err(st, Std(o.line, "Operands must be a numbers."))
    IN  CASE o.op = "MINUS" -> numbers(Double(left.n - right.n))
          [] o.op = "PLUS" ->
               IF left.kind = "Double" /\ right.kind = "Double"
               THEN Ok(st, Tmp(Double(left.n + right.n)))
               ELSE IF left.kind = "String" /\ right.kind = "String"
               THEN Ok(st, Tmp(String(left.s \o right.s)))
               ELSE Err(st, Std(o.line, "Operands can only be numbers or strings"))
          [] o.op = "STAR" -> numbers(Double(left.n * right.n))
          [] o.op = "SLASH" ->
               IF ~ check_number_operands(left, right)
               THEN Err(st, Std(o.line, "Operands must be a numbers."))
               ELSE divide(st, o, left.n, right.n)
          [] o.op = "GREATER" -> numbers(Boolean(left.n > right.n))
          [] o.op = "GREATER_EQUAL" -> numbers(Boolean(left.n >= right.n))
          [] o.op = "LESS" -> numbers(Boolean(left.n < right.n))
          [] o.op = "LESS_EQUAL" -> numbers(Boolean(left.n <= right.n))
          [] o.op = "BANG_EQUAL" -> Ok(st, Tmp(Boolean(~ Value_eq(left, right))))
          [] o.op = "EQUAL_EQUAL" -> Ok(st, Tmp(Boolean(Value_eq(left, right))))
          [] OTHER -> Ok(st, Tmp(Nil))

\* Interpreter::interpret_expr_literal
interpret_expr_literal(st, expr) ==
    Ok(st, Tmp(CASE expr.op = "True" -> Boolean(TRUE)
                 [] expr.op = "False" -> Boolean(FALSE)
                 [] expr.op = "NUMBER" -> Double(expr.num)
                 [] expr.op = "STRING" -> String(expr.name)
                 [] OTHER -> Nil))

\* Callable::arity of Native, LoxFunction and LoxClass (find_method("init")).
Callable_arity(callee) ==
    CASE callee.kind = "NativeFn" -> callee.arity
      [] callee.kind = "Function" -> Len(callee.declaration.params)
      [] callee.kind = "Class" ->
           IF "init" \in DOMAIN callee.methods
           THEN Len(callee.methods["init"].declaration.params)
           ELSE 0

\* LoxFunction::bind: a new environment enclosing the closure, with "this"
\* defined as the instance (a value: the caller passed a clone).  Returns
\* the state and the bound function.
LoxFunction_bind(st, f, instance) ==
    LET environment == Len(st.envs) + 1
        s1 == Environment_define(EnvCell_with_enclosing(st, f.closure),
                                 environment, "this", instance)
    IN  [st |-> Event(s1, [ev |-> "bind", env |-> environment,
                           cell |-> s1.envs[environment].values["this"]]),
         f |-> LoxFunction_new(f.declaration, environment, f.is_initializer)]

\* LoxInstance::get: a field's value, else the method bound to a clone of
\* the instance, else an error.
LoxInstance_get(st, instance, name, line) ==
    IF name \in DOMAIN instance.fields THEN Ok(st, Tmp(instance.fields[name]))
    ELSE IF name \in DOMAIN instance.class.methods
         THEN LET b == LoxFunction_bind(st, instance.class.methods[name], instance)
              IN  Ok(b.st, Tmp(b.f))
         ELSE Err(st, Std(line, "Undefined property '" \o name \o "'."))

\* LoxInstance::set
LoxInstance_set(instance, name, value) ==
    [instance EXCEPT !.fields = (name :> value) @@ @]

\* The zip of parameters and arguments in LoxFunction::call, each defined in
\* the call's environment.
RECURSIVE define_params(_, _, _, _, _)
define_params(st, environment, params, arguments, i) ==
    IF i > Len(params) \/ i > Len(arguments) THEN st
    ELSE define_params(Environment_define(st, environment, params[i], arguments[i]),
                       environment, params, arguments, i + 1)

\* The loop over the methods in Interpreter::interpret_class_decl: a later
\* method replaces an earlier one of the same name.
RECURSIVE class_methods(_, _, _, _)
class_methods(methods, environment, i, acc) ==
    IF i > Len(methods) THEN acc
    ELSE class_methods(methods, environment, i + 1,
            (methods[i].name :> LoxFunction_new(methods[i], environment,
                                                methods[i].name = "init")) @@ acc)

\* A call that restores the caller's environment only when the body
\* returned Ok.
call_restore_on_ok(previous, body_environment, result) ==
    IF result = "Ok" THEN previous ELSE body_environment

\* The environment Interpreter::environment holds after
\* LoxFunction::call: line 176 runs whatever the body's result was.
call_restore(previous, body_environment, result) == previous

\* A call that returns the signal's value from an initializer too.
call_return_value_signal(is_initializer, this, v) == v

\* The value LoxFunction::call returns for a return signal carrying v
\* (this is the value of "this" in the closure) and for a body that fell
\* through.
call_return_value(is_initializer, this, v) == IF is_initializer THEN this ELSE v
call_fall_through_value(is_initializer, this) == IF is_initializer THEN this ELSE Nil

\* A function that closes over the globals instead of the environment of
\* its declaration.
function_closure_globals(st) == st.globals

\* The closure Interpreter::interpret_function_statement gives the function:
\* a clone of the Rc of the current environment.
function_closure(st) == st.environment

\* The environment Interpreter::interpret_block_statement leaves as current:
\* line 123 is reached only when no statement returned Err (line 120's ?).
block_restore(previous, block_environment, tag) ==
    IF tag = "Ok" THEN previous ELSE block_environment

\* A class call that returns the instance it constructed instead of the
\* result of the initializer.
class_call_result_fresh(instance, init_result) == instance

\* What LoxClass::call returns when the class has an init: the result of the
\* bound initializer's call.
class_call_result(instance, init_result) == init_result

\* The ? operator on a ValueResult: an Err (or a panic) is returned, Ok
\* goes on.
Try(r, K(_)) == IF r.tag # "Ok" THEN r ELSE K(r)
\* A result the caller matches on.
Then(r, K(_)) == K(r)

\* ValueCell::value on the cell of an Ok result.
value_of(r) ==
    IF ValueCell_borrowed(r.st, r.vc)
    THEN Panic(r.st, "already mutably borrowed: BorrowError")
    ELSE Ok(r.st, Tmp(ValueCell_value(r.st, r.vc)))

RECURSIVE interpret_expr(_, _)
RECURSIVE eval_arguments_range(_, _, _, _, _)
RECURSIVE interpret_statement(_, _)
RECURSIVE execute_statements(_, _, _)
RECURSIVE while_loop(_, _, _)

\* self.interpret_expr(e)?.value()
eval_value(st, e) == Try(interpret_expr(st, e), value_of)

\* The loop over the arguments in Interpreter::interpret_expr_call, from
\* kids[i] on; Ok carries the vector of values.
\* kids[i], .., kids[j] evaluated one after the other with ?, written as
\* the first half and then the second half so that long argument lists
\* nest little.
eval_arguments_range(st, kids, i, j, acc) ==
    IF i > j THEN Ok(st, Tmp(acc))
    ELSE IF i = j
    THEN Try(eval_value(st, kids[i]), LAMBDA r : Ok(r.st, Tmp(Append(acc, r.vc.v))))
    ELSE Try(eval_arguments_range(st, kids, i, (i + j) \div 2, acc),
             LAMBDA r : eval_arguments_range(r.st, kids, (i + j) \div 2 + 1, j, r.vc.v))

eval_arguments(st, kids, i, acc) == eval_arguments_range(st, kids, i, Len(kids), acc)

\* Interpreter::execute_statements, and the same loop in
\* Interpreter::interpret_block_statement: each statement with ?.
execute_statements(st, statements, i) ==
    IF i > Len(statements) THEN Ok(st, Tmp(Nil))
    ELSE Try(interpret_statement(st, statements[i]),
             LAMBDA r : execute_statements(r.st, statements, i + 1))

\* LoxFunction::call up to the execution of the body: the new environment
\* with the parameters, made current.
call_enter(st, f, arguments) ==
    LET s1 == define_params(EnvCell_with_enclosing(st, f.closure), Len(st.envs) + 1,
                            f.declaration.params, arguments, 1)
    IN  [s1 EXCEPT !.environment = Len(st.envs) + 1, !.act = s1.nextAct,
                   !.nextAct = @ + 1]

\* LoxFunction::call after the execution of the body with result b: the
\* match on the result, and the caller's environment made current.
call_leave(st, s2, f, arguments, b) ==
    LET previous == st.environment
        this == EnvCell_get_at(b.st, f.closure, 0, "this")
        needs_this == /\ f.is_initializer
                      /\ b.tag = "Ok" \/ (b.tag = "Err" /\ b.err.kind = "Return")
        thisv == IF this.ok THEN b.st.cells[this.cell] ELSE Nil
        res == IF b.tag = "Err" /\ b.err.kind = "Return"
               THEN Ok(b.st, Tmp(call_return_value(f.is_initializer, thisv, b.err.v)))
               ELSE IF b.tag = "Err"
               THEN Err(ValueError_error(b.st, b.err),
                        Std(f.declaration.line,
                            "Non-return value error detected in function call"))
               ELSE Ok(b.st, Tmp(call_fall_through_value(f.is_initializer, thisv)))
        after == call_restore(previous, b.st.environment, b.tag)
        done(r) == [r EXCEPT !.st = Event([r.st EXCEPT !.environment = after,
                                                       !.act = st.act],
                        [ev |-> "call", act |-> s2.act, name |-> f.declaration.name,
                         is_initializer |-> f.is_initializer, closure |-> f.closure,
                         env |-> s2.environment, arguments |-> arguments,
                         params |-> f.declaration.params,
                         bound |-> [p \in DOMAIN s2.envs[s2.environment].values |->
                                      s2.cells[s2.envs[s2.environment].values[p]]],
                         enclosing |-> s2.envs[s2.environment].enclosing,
                         previous |-> previous, body_end |-> b.st.environment,
                         after |-> after,
                         outcome |-> IF b.tag = "Ok" THEN "fall" ELSE b.err.kind,
                         signal |-> b.err.v, tag |-> r.tag, value |-> r.vc.v,
                         this |-> thisv])]
    IN  IF Aborted(b) THEN b
        ELSE IF needs_this /\ ~ this.ok
        THEN Panic(b.st, "Unwrap failed on EnvCell, get_at")
        ELSE IF needs_this /\ this.cell \in b.st.borrowed
        THEN Panic(b.st, "already mutably borrowed: BorrowError")
        ELSE done(res)

\* The body of LoxFunction::call in the state s2 call_enter made.
call_body(st, s2, f, arguments) ==
    Then(execute_statements(s2, f.declaration.body, 1),
         LAMBDA b : call_leave(st, s2, f, arguments, b))

\* impl Callable for LoxFunction: call
LoxFunction_call(st, f, arguments) ==
    call_body(st, call_enter(st, f, arguments), f, arguments)

\* The history of a class call with result res.
new_event(res, class, arguments, instance, this_cell, init_act) ==
    IF Aborted(res) THEN res
    ELSE [res EXCEPT !.st = Event(res.st,
             [ev |-> "new", class |-> class, arguments |-> arguments,
              oid |-> instance.oid,
              this_final |-> IF this_cell # 0 THEN res.st.cells[this_cell] ELSE instance,
              has_init |-> this_cell # 0, init_act |-> init_act,
              this_cell |-> this_cell, tag |-> res.tag, value |-> res.vc.v])]

\* LoxClass::call for a class with an init, b being the bound initializer:
\* return initializer.bind(instance.clone()).call(interpreter, arguments).
class_init(b, class, arguments, instance) ==
    Then(LoxFunction_call(b.st, b.f, arguments), LAMBDA r :
         new_event(IF r.tag = "Ok"
                   THEN [r EXCEPT !.vc = Tmp(class_call_result(instance, r.vc.v))]
                   ELSE r,
                   class, arguments, instance,
                   b.st.envs[b.f.closure].values["this"], b.st.nextAct))

\* LoxClass::call with the instance it constructed.
class_instance(st, class, arguments, instance) ==
    IF "init" \in DOMAIN class.methods
    THEN class_init(LoxFunction_bind(st, class.methods["init"], instance),
                    class, arguments, instance)
    ELSE new_event(Ok(st, Tmp(instance)), class, arguments, instance, 0, 0)

\* impl Callable for LoxClass: call
LoxClass_call(st, class, arguments) ==
    class_instance([st EXCEPT !.nextObj = @ + 1], class, arguments,
                   [LoxInstance_new(class) EXCEPT !.oid = st.nextObj])

\* The history of the checks of a call: what was called with what, the
\* number of activations and of output lines before and after.
apply_event(st, expr, callee, arguments, r) ==
    IF Aborted(r) THEN r
    ELSE [r EXCEPT !.st = Event(r.st,
             [ev |-> "apply", line |-> expr.line, callee |-> callee,
              arguments |-> arguments, acts |-> st.nextAct,
              acts_after |-> r.st.nextAct, out |-> Len(st.out),
              out_after |-> Len(r.st.out), tag |-> r.tag,
              message |-> IF r.tag = "Err" /\ r.err.kind = "Std"
                          THEN r.err.message ELSE ""])]

\* A variant of arity_ok that accepts every argument count.
arity_ok_any(arguments, callee) == TRUE

\* arguments.len() != function.arity(), negated
arity_ok(arguments, callee) == Len(arguments) = Callable_arity(callee)

\* Interpreter::interpret_expr_call after the callee and the arguments.
call_value(st, expr, callee, arguments) ==
    IF callee.kind \notin {"NativeFn", "Function", "Class"}
    THEN Err(st, Std(expr.line, "Can only call functions and classes"))
    ELSE IF ~ arity_ok(arguments, callee)
    THEN Err(st, Std(expr.line,
             "Expected " \o ToString(Callable_arity(callee))
             \o " arguments but got " \o ToString(Len(arguments)) \o "."))
    ELSE CASE callee.kind = "NativeFn" -> Ok(st, Tmp(Double(0)))
           [] callee.kind = "Function" -> LoxFunction_call(st, callee, arguments)
           [] callee.kind = "Class" -> LoxClass_call(st, callee, arguments)

\* Interpreter::interpret_expr_call
interpret_expr_call(st, expr) ==
    Try(eval_value(st, expr.kids[1]), LAMBDA c :
    Try(eval_arguments(c.st, expr.kids, 2, <<>>), LAMBDA a :
        Then(call_value(a.st, expr, c.vc.v, a.vc.v), LAMBDA r :
             apply_event(a.st, expr, c.vc.v, a.vc.v, r))))

\* Interpreter::interpret_expr_get
interpret_expr_get(st, expr) ==
    Try(eval_value(st, expr.kids[1]), LAMBDA o :
        IF o.vc.v.kind = "Instance"
        THEN LoxInstance_get(o.st, o.vc.v, expr.name, expr.line)
        ELSE Interpreter_error(o.st, expr.line, "Only instances have properties"))

\* Interpreter::interpret_expr_assignment after the value.
assign_value(expr, value) ==
    LET distance == locals_get(value.st.locals, ExprKey(expr))
        v == ValueCell_value(value.st, value.vc)
        a == EnvCell_assign_at(value.st, value.st.environment, distance, expr.name, v)
        g == Environment_assign(value.st, value.st.globals, expr.name, v)
        note(s) == Event(s, [ev |-> "assign", id |-> expr.id, distance |-> distance,
                             cur |-> value.st.environment, act |-> value.st.act])
    IN  IF ValueCell_borrowed(value.st, value.vc)
        THEN Panic(value.st, "already mutably borrowed: BorrowError")
        ELSE IF distance >= 0
        THEN IF a.ok THEN Ok(note(a.st), value.vc)
             ELSE Panic(value.st,
                   "Environment: Reached maximum ancestor distance, ancestor not found")
        ELSE IF g.ok THEN Ok(note(g.st), value.vc)
             ELSE Err(value.st, Std(expr.line, "Undefined variable '" \o expr.name \o "'."))

\* Interpreter::interpret_expr_assignment
interpret_expr_assignment(st, expr) ==
    Try(interpret_expr(st, expr.kids[1]), LAMBDA value : assign_value(expr, value))

\* The Variable arm of Interpreter::interpret_expr (line 67):
\* self.environment.get(x.name), a walk of the environment chain from the
\* current environment.  Interpreter::interpret_expr_variable is not called.
interpret_expr_variable_arm(st, expr) ==
    LET g == Environment_get(st, st.environment, expr.name)
    IN  IF g.found
        THEN Ok(Event(st, [ev |-> "read", id |-> expr.id, kind |-> "Variable",
                           key |-> ExprKey(expr), name |-> expr.name,
                           cur |-> st.environment, env |-> g.env, cell |-> g.cell,
                           v |-> st.cells[g.cell], act |-> st.act]),
                Ref(g.cell))
        ELSE Err(st, Std(expr.line, "Undefined variable '" \o expr.name \o "'."))

\* Interpreter::look_up_variable
look_up_variable(st, name, expr) ==
    LET distance == locals_get(st.locals, ExprKey(expr))
        a == EnvCell_get_at(st, st.environment, distance, name)
        g == Environment_get(st, st.globals, name)
        note(env, cell) ==
            Event(st, [ev |-> "read", id |-> expr.id, kind |-> expr.kind,
                       key |-> ExprKey(expr), name |-> name,
                       cur |-> st.environment, env |-> env, cell |-> cell,
                       v |-> st.cells[cell], act |-> st.act])
    IN  IF distance >= 0
        THEN IF a.ok THEN Ok(note(a.env, a.cell), Ref(a.cell))
             ELSE Panic(Event(st, [ev |-> "get_at_panic", id |-> expr.id,
                                   distance |-> distance, cur |-> st.environment]),
                        "Unwrap failed on EnvCell, get_at")
        ELSE IF g.found THEN Ok(note(g.env, g.cell), Ref(g.cell))
             ELSE Err(st, Std(expr.line, "Undefined variable '" \o name \o "'."))

\* Interpreter::interpret_expr_this
interpret_expr_this(st, expr) == look_up_variable(st, expr.name, expr)

\* A variant of short_circuits that always goes on to the right operand.
short_circuits_never(operator, left) == FALSE

\* The test of Interpreter::interpret_expr_logical on the left value: or
\* returns it when it is truthy, every other operator when it is not.
short_circuits(operator, left) ==
    IF operator = "OR" THEN is_truthy(left) ELSE ~ is_truthy(left)

\* Interpreter::interpret_expr_logical
interpret_expr_logical(st, expr) ==
    Try(eval_value(st, expr.kids[1]), LAMBDA left :
        IF short_circuits(expr.op, left.vc.v) THEN left
        ELSE interpret_expr(left.st, expr.kids[2]))

\* Interpreter::interpret_expr_unary
interpret_expr_unary(st, expr) ==
    Try(eval_value(st, expr.kids[1]), LAMBDA right :
        CASE expr.op = "MINUS" ->
                 IF right.vc.v.kind = "Double"
                 THEN Ok(right.st, Tmp(Double(0 - right.vc.v.n)))
                 ELSE Err(right.st, Std(expr.line, "Operand must be a number."))
          [] expr.op = "BANG" -> Ok(right.st, Tmp(Boolean(~ is_truthy(right.vc.v))))
          [] OTHER -> Ok(right.st, Tmp(Nil)))

\* Interpreter::interpret_expr_binary
interpret_expr_binary(st, expr) ==
    Try(eval_value(st, expr.kids[1]), LAMBDA left :
    Try(eval_value(left.st, expr.kids[2]), LAMBDA right :
        binary_operator(right.st, expr, left.vc.v, right.vc.v)))

\* Interpreter::interpret_expr_set after the value, the object's cell being
\* held: object.set(name, value.value()), and the borrow ends.
set_value(expr, held, value) ==
    LET val == ValueCell_value(value.st, value.vc)
        s2 == IF held = 0 THEN value.st
              ELSE [value.st EXCEPT !.cells[held] = LoxInstance_set(@, expr.name, val)]
    IN  IF Aborted(value) THEN value
        ELSE IF value.tag = "Err"
        THEN [value EXCEPT !.st = [value.st EXCEPT !.borrowed = @ \ {held}]]
        ELSE IF ValueCell_borrowed(value.st, value.vc)
        THEN Panic(value.st, "already mutably borrowed: BorrowError")
        ELSE Ok(Event([s2 EXCEPT !.borrowed = @ \ {held}],
                      [ev |-> "set", cell |-> held, name |-> expr.name, v |-> val,
                       oid |-> IF held = 0 THEN 0 ELSE value.st.cells[held].oid,
                       act |-> s2.act]),
                value.vc)

\* Interpreter::interpret_expr_set: the object's cell stays mutably borrowed
\* (line 262) while the value is evaluated and read (lines 268-269).
interpret_expr_set(st, expr) ==
    Try(interpret_expr(st, expr.kids[1]), LAMBDA object :
        IF ValueCell_borrowed(object.st, object.vc)
        THEN Panic(object.st, "already borrowed: BorrowMutError")
        ELSE IF ValueCell_value(object.st, object.vc).kind # "Instance"
        THEN Interpreter_error(object.st, expr.line, "Only instances have fields")
        ELSE Then(interpret_expr([object.st EXCEPT !.borrowed =
                                     @ \cup ({object.vc.ref} \ {0})],
                                 expr.kids[2]),
                  LAMBDA value : set_value(expr, object.vc.ref, value)))

\* Interpreter::interpret_expr (with interpret_expr_grouping)
interpret_expr(st, expr) ==
    CASE expr.kind = "Assignment" -> interpret_expr_assignment(st, expr)
      [] expr.kind = "Binary" -> interpret_expr_binary(st, expr)
      [] expr.kind = "Literal" -> interpret_expr_literal(st, expr)
      [] expr.kind = "Unary" -> interpret_expr_unary(st, expr)
      [] expr.kind = "Call" -> interpret_expr_call(st, expr)
      [] expr.kind = "Get" -> interpret_expr_get(st, expr)
      [] expr.kind = "Set" -> interpret_expr_set(st, expr)
      [] expr.kind = "This" -> interpret_expr_this(st, expr)
      [] expr.kind = "Grouping" -> interpret_expr(st, expr.kids[1])
      [] expr.kind = "Logical" -> interpret_expr_logical(st, expr)
      [] expr.kind = "Variable" -> interpret_expr_variable_arm(st, expr)

\* Interpreter::interpret_print_statement: one line on standard output.
interpret_print_statement(st, s) ==
    Try(eval_value(st, s.exprs[1]), LAMBDA v :
        Ok([v.st EXCEPT !.out = Append(@, Value_fmt(v.vc.v))], Tmp(Nil)))

\* Interpreter::interpret_expr_statement
interpret_expr_statement(st, s) ==
    Try(interpret_expr(st, s.exprs[1]), LAMBDA v : Ok(v.st, Tmp(Nil)))

\* Interpreter::interpret_var_statement
interpret_var_statement(st, s) ==
    IF s.exprs = <<>>
    THEN Ok(Environment_define(st, st.environment, s.name, Nil), Tmp(Nil))
    ELSE Try(eval_value(st, s.exprs[1]), LAMBDA v :
             Ok(Environment_define(v.st, v.st.environment, s.name, v.vc.v), Tmp(Nil)))

\* Interpreter::interpret_block_statement after the loop over the
\* statements with result b.
block_leave(st, b) ==
    LET after == block_restore(st.environment, b.st.environment, b.tag)
    IN  IF Aborted(b) THEN b
        ELSE [b EXCEPT !.st = Event([b.st EXCEPT !.environment = after],
                 [ev |-> "block", previous |-> st.environment,
                  env |-> Len(st.envs) + 1, after |-> after, act |-> st.act,
                  outcome |-> IF b.tag = "Ok" THEN "normal" ELSE b.err.kind])]

\* Interpreter::interpret_block_statement
interpret_block_statement(st, s) ==
    Then(execute_statements([EnvCell_with_enclosing(st, st.environment) EXCEPT
                                !.environment = Len(st.envs) + 1],
                            s.body, 1),
         LAMBDA b : block_leave(st, b))

\* Interpreter::interpret_class_decl
interpret_class_decl(st, s) ==
    LET s1 == Environment_define(st, st.environment, s.name, Nil)
        class == LoxClass_new(s.name, class_methods(s.body, s1.environment, 1, <<>>))
        a == Environment_assign(s1, s1.environment, s.name, class)
    IN  IF a.ok THEN Ok(a.st, Tmp(Nil))
        ELSE Err(s1, Std(s.line, "Undefined variable '" \o s.name \o "'."))

\* Interpreter::interpret_if_statement
interpret_if_statement(st, s) ==
    Try(eval_value(st, s.exprs[1]), LAMBDA c :
        IF is_truthy(c.vc.v) THEN interpret_statement(c.st, s.body[1])
        ELSE IF s.els # <<>> THEN interpret_statement(c.st, s.els[1])
        ELSE Ok(c.st, Tmp(Nil)))

\* The history of a break or continue signal raised or caught: the
\* innermost while statement being executed (0 for none), the activation
\* that executes it and the current one.
loop_event(st, ev, kind) ==
    Event(st, [ev |-> ev, kind |-> kind, act |-> st.act,
               loop |-> IF st.loops = <<>> THEN 0 ELSE st.loops[Len(st.loops)].id,
               loop_act |-> IF st.loops = <<>> THEN 0 ELSE st.loops[Len(st.loops)].act,
               out |-> Len(st.out)])

\* A variant of loop_signal that takes every error for a break.
loop_signal_break(err) == "Break"

\* The arms of the match in Interpreter::interpret_while_statement: Break
\* breaks, Continue continues, every other error is returned.
loop_signal(err) == err.kind

\* The match on the result v of the body in
\* Interpreter::interpret_while_statement, K being the rest of the loop.
while_body(v, K(_)) ==
    IF v.tag = "Err" /\ loop_signal(v.err) = "Break"
    THEN Ok(loop_event(v.st, "caught", v.err.kind), Tmp(Nil))
    ELSE IF v.tag = "Err" /\ loop_signal(v.err) = "Continue"
    THEN K(loop_event(v.st, "caught", "Continue"))
    ELSE IF v.tag = "Ok" THEN K(v.st)
    ELSE v

\* The loop of Interpreter::interpret_while_statement; n counts the
\* executions of the body so far.  A loop that would run its body more than
\* MaxIter times is not followed further (tag "Cut").
while_loop(st, s, n) ==
    Try(eval_value(st, s.exprs[1]), LAMBDA c :
        IF ~ is_truthy(c.vc.v) THEN Ok(loop_event(c.st, "test", "false"), Tmp(Nil))
        ELSE IF n >= MaxIter
        THEN [Panic(loop_event(c.st, "test", "true"), "") EXCEPT !.tag = "Cut"]
        ELSE Then(interpret_statement(loop_event(c.st, "test", "true"), s.body[1]),
                  LAMBDA v : while_body(v, LAMBDA s1 : while_loop(s1, s, n + 1))))

\* Interpreter::interpret_while_statement
interpret_while_statement(st, s) ==
    Then(while_loop([st EXCEPT !.loops = Append(@, [id |-> st.nextLoop, act |-> st.act]),
                               !.nextLoop = @ + 1],
                    s, 0),
         LAMBDA r : [r EXCEPT !.st.loops = st.loops])

\* Interpreter::interpret_function_statement
interpret_function_statement(st, s) ==
    Ok(Event(Environment_define(st, st.environment, s.name,
                                LoxFunction_new(s, function_closure(st), FALSE)),
             [ev |-> "fun", name |-> s.name, env |-> st.environment,
              closure |-> function_closure(st)]),
       Tmp(Nil))

\* Interpreter::interpret_return_statement
interpret_return_statement(st, s) ==
    IF s.exprs = <<>> THEN Err(st, ErrReturn(Nil))
    ELSE Try(eval_value(st, s.exprs[1]), LAMBDA v : Err(v.st, ErrReturn(v.vc.v)))

\* Interpreter::interpret_statement (with interpret_break_statement and
\* interpret_continue_statement)
interpret_statement(st, s) ==
    CASE s.kind = "Expression" -> interpret_expr_statement(st, s)
      [] s.kind = "Print" -> interpret_print_statement(st, s)
      [] s.kind = "Var" -> interpret_var_statement(st, s)
      [] s.kind = "Block" -> interpret_block_statement(st, s)
      [] s.kind = "If" -> interpret_if_statement(st, s)
      [] s.kind = "While" -> interpret_while_statement(st, s)
      [] s.kind = "Break" -> Err(loop_event(st, "raise", "Break"), ErrBreak)
      [] s.kind = "Continue" -> Err(loop_event(st, "raise", "Continue"), ErrContinue)
      [] s.kind = "Function" -> interpret_function_statement(st, s)
      [] s.kind = "Class" -> interpret_class_decl(st, s)
      [] s.kind = "Return" -> interpret_return_statement(st, s)

\* ------------------------------------------------------------------ parser
\* Token (scanner/token/mod.rs)
Token(token_type, lexeme, literal, line) ==
    [token_type |-> token_type, lexeme |-> lexeme, literal |-> literal, line |-> line]

\* Parser::new.  current counts the tokens consumed (tokens[current + 1] is
\* the current token); errs is standard error; log is history.
Parser_new(tokens) ==
    [tokens |-> tokens, current |-> 0, had_error |-> FALSE, loop_depth |-> 0,
     errs |-> <<>>, log |-> <<>>]

\* Parser::peek
peek(ps) == ps.tokens[ps.current + 1]

\* Parser::previous
previous(ps) == ps.tokens[ps.current]

\* Parser::is_at_end
is_at_end(ps) == peek(ps).token_type = "EOF"

\* Parser::check
check(ps, token_type) == ~ is_at_end(ps) /\ peek(ps).token_type = token_type

\* Parser::advance (the parser afterwards; the token is previous of it)
advance(ps) == IF is_at_end(ps) THEN ps ELSE [ps EXCEPT !.current = @ + 1]

\* Parser::match_next: whether the current token has one of the types, and
\* the parser afterwards.
match_next(ps, token_types) ==
    IF \E t \in token_types : check(ps, t)
    THEN [matched |-> TRUE, ps |-> advance(ps)]
    ELSE [matched |-> FALSE, ps |-> ps]

\* ParserError::error and StatementError::error: the line on standard error.
ParserError_error(token, message) ==
    "[line " \o ToString(token.line) \o "] Error"
    \o (IF token.token_type = "EOF" THEN " at end"
        ELSE " at '" \o token.lexeme \o "'")
    \o ": " \o message

\* ParserResult and StatementResult: Ok with the parser afterwards and what
\* was parsed, Err with the error's token and message.
POk(ps, v) == [ok |-> TRUE, ps |-> ps, v |-> v, message |-> ""]
PErr(ps, token, message) == [ok |-> FALSE, ps |-> ps, v |-> token, message |-> message]

\* The ? operator on a ParserResult or a StatementResult.
PTry(a, K(_)) == IF a.ok THEN K(a) ELSE a

\* Parser::error: sets had_error, reports the error, returns it.
Parser_error(ps, token, message) ==
    PErr([ps EXCEPT !.had_error = TRUE,
                    !.errs = Append(@, ParserError_error(token, message))],
         token, message)

\* ParserError::new, StatementError::new: an error that is not reported
\* where it is made.
ParserError_new(ps, token, message) == PErr(ps, token, message)

\* Parser::consume
consume(ps, token_type, message) ==
    IF check(ps, token_type) THEN POk(advance(ps), peek(ps))
    ELSE Parser_error(ps, peek(ps), message)

\* The loop of Parser::synchronize
RECURSIVE synchronize_loop(_)
synchronize_loop(ps) ==
    IF is_at_end(ps) THEN ps
    ELSE IF previous(ps).token_type = "SEMICOLON" THEN ps
    ELSE IF peek(ps).token_type \in {"CLASS", "FUN", "VAR", "FOR", "IF", "WHILE",
                                     "PRINT", "RETURN"}
    THEN ps
    ELSE synchronize_loop(advance(ps))

\* Parser::synchronize (no function calls it)
synchronize(ps) == synchronize_loop(advance(ps))

\* The most arguments of a call and parameters of a function that are not
\* reported (parser/mod.rs 231, statement/mod.rs 297).
ArgumentLimit == 255

\* The loop over the arguments of a call is followed for 2^MaxDoublings
\* iterations.
MaxDoublings == 9

RECURSIVE expression(_)
RECURSIVE assignment(_)
RECURSIVE or_loop(_)
RECURSIVE and_loop(_)
RECURSIVE equality_loop(_)
RECURSIVE comparison_loop(_)
RECURSIVE term_loop(_)
RECURSIVE factor_loop(_)
RECURSIVE unary(_)
RECURSIVE call_loop(_)
RECURSIVE arguments_loop(_, _)

RECURSIVE primary_matched(_, _, _)

\* The history of a parse: what was met at which token with which
\* loop_depth.
parse_event(ps, e) == [ps EXCEPT !.log = Append(@, e)]

\* History only: a call of Parser::primary that began at the token from
\* returned Ok with the parser at the token to.
primary_returned(from, r) ==
    IF r.ok
    THEN POk(parse_event(r.ps, [ev |-> "primary", from |-> from,
                                to |-> r.ps.current]), r.v)
    ELSE r

\* Parser::primary; a node's id is the position of its token.
primary(ps) ==
    LET m == match_next(ps, {"FALSE", "TRUE", "NIL", "NUMBER", "STRING", "THIS",
                             "IDENTIFIER", "LEFT_PAREN"})
        t == previous(m.ps)
    IN  Then(primary_matched(ps, m, t), LAMBDA r : primary_returned(ps.current, r))

\* The returns of Parser::primary: m is the result of matching the first
\* token of a primary expression, t the token matched; without a match the
\* last line returns the literal Null.
primary_matched(ps, m, t) ==
        IF ~ m.matched THEN POk(ps, Null)
        ELSE CASE t.token_type = "FALSE" -> POk(m.ps, False)
               [] t.token_type = "TRUE" -> POk(m.ps, True)
               [] t.token_type = "NIL" -> POk(m.ps, Null)
               [] t.token_type = "NUMBER" ->
                      POk(m.ps, Num(IF t.literal.kind = "Float" THEN t.literal.n ELSE 0))
               [] t.token_type = "STRING" ->
                      POk(m.ps, Str(IF t.literal.kind = "String" THEN t.literal.s ELSE ""))
               [] t.token_type = "THIS" -> POk(m.ps, This(t.line, m.ps.current))
               [] t.token_type = "IDENTIFIER" ->
                      POk(m.ps, Variable(t.lexeme, t.line, m.ps.current))
               [] t.token_type = "LEFT_PAREN" ->
                      PTry(expression(m.ps), LAMBDA e :
                      PTry(consume(e.ps, "RIGHT_PAREN", "Expect ')' after expression"),
                           LAMBDA c : POk(c.ps, Grouping(e.v))))

\* Parser::finish_call after the loop over the arguments.
finish_call_end(ps, callee, arguments) ==
    PTry(consume(ps, "RIGHT_PAREN", "Expect ')' after arguments"), LAMBDA c :
         POk(c.ps, Call(callee, c.v.line, arguments)))

\* One iteration of the loop over the arguments in Parser::finish_call: the
\* error for an argument after the 255th is reported and the loop goes on.
\* more says that a comma was matched, r is the result with the arguments
\* so far.
arguments_step(ps, arguments) ==
    Then(expression(IF Len(arguments) >= ArgumentLimit
                    THEN Parser_error(ps, peek(ps),
                                      "Can't have more than 255 arguments").ps
                    ELSE ps),
         LAMBDA e :
            IF ~ e.ok THEN [more |-> FALSE, r |-> e]
            ELSE IF match_next(e.ps, {"COMMA"}).matched
            THEN [more |-> TRUE, r |-> POk(advance(e.ps), Append(arguments, e.v))]
            ELSE [more |-> FALSE, r |-> POk(e.ps, Append(arguments, e.v))])

\* The loop over the arguments in Parser::finish_call, followed for 2^k
\* iterations from a: the first half of them, then the second half.
arguments_loop(a, k) ==
    IF ~ a.more THEN a
    ELSE IF k = 0 THEN arguments_step(a.r.ps, a.r.v)
    ELSE arguments_loop(arguments_loop(a, k - 1), k - 1)

\* Parser::finish_call
finish_call(ps, callee) ==
    IF check(ps, "RIGHT_PAREN") THEN finish_call_end(ps, callee, <<>>)
    ELSE PTry(arguments_loop([more |-> TRUE, r |-> POk(ps, <<>>)], MaxDoublings).r,
              LAMBDA a : finish_call_end(a.ps, callee, a.v))

\* The loop of Parser::call, a being the expression so far.
call_loop(a) ==
    IF match_next(a.ps, {"LEFT_PAREN"}).matched
    THEN PTry(finish_call(advance(a.ps), a.v), call_loop)
    ELSE IF match_next(a.ps, {"DOT"}).matched
    THEN PTry(consume(advance(a.ps), "IDENTIFIER", "Expect property name after '.'"),
              LAMBDA name : call_loop(POk(name.ps, Get(a.v, name.v.lexeme, name.v.line))))
    ELSE a

\* Parser::call
call(ps) == PTry(primary(ps), call_loop)

\* Parser::unary
unary(ps) ==
    IF match_next(ps, {"BANG", "MINUS"}).matched
    THEN PTry(unary(advance(ps)), LAMBDA right :
              POk(right.ps, Unary(peek(ps).token_type, peek(ps).line, right.v)))
    ELSE call(ps)

\* The loop of Parser::factor, a being the expression so far.
factor_loop(a) ==
    IF match_next(a.ps, {"SLASH", "STAR"}).matched
    THEN PTry(unary(advance(a.ps)), LAMBDA right :
              factor_loop(POk(right.ps, Binary(a.v, peek(a.ps).token_type,
                                               peek(a.ps).line, right.v))))
    ELSE a

\* Parser::factor
factor(ps) == PTry(unary(ps), factor_loop)

\* The loop of Parser::term, a being the expression so far: an operand that
\* is the literal nil is an error.
term_loop(a) ==
    IF ~ match_next(a.ps, {"MINUS", "PLUS"}).matched THEN a
    ELSE IF a.v = Null
    THEN Parser_error(advance(a.ps), peek(a.ps), "Invalid LHS for binary expression")
    ELSE PTry(factor(advance(a.ps)), LAMBDA right :
              IF right.v = Null
              THEN Parser_error(right.ps, peek(right.ps),
                                "Invalid RHS for binary expression")
              ELSE term_loop(POk(right.ps, Binary(a.v, peek(a.ps).token_type,
                                                  peek(a.ps).line, right.v))))

\* Parser::term
term(ps) == PTry(factor(ps), term_loop)

\* The loop of Parser::comparison, a being the expression so far.
comparison_loop(a) ==
    IF match_next(a.ps, {"GREATER", "GREATER_EQUAL", "LESS", "LESS_EQUAL"}).matched
    THEN PTry(term(advance(a.ps)), LAMBDA right :
              comparison_loop(POk(right.ps, Binary(a.v, peek(a.ps).token_type,
                                                   peek(a.ps).line, right.v))))
    ELSE a

\* Parser::comparison
comparison(ps) == PTry(term(ps), comparison_loop)

\* The loop of Parser::equality, a being the expression so far.
equality_loop(a) ==
    IF match_next(a.ps, {"BANG_EQUAL", "EQUAL_EQUAL"}).matched
    THEN PTry(comparison(advance(a.ps)), LAMBDA right :
              equality_loop(POk(right.ps, Binary(a.v, peek(a.ps).token_type,
                                                 peek(a.ps).line, right.v))))
    ELSE a

\* Parser::equality
equality(ps) == PTry(comparison(ps), equality_loop)

\* The loop of Parser::and, a being the expression so far.
and_loop(a) ==
    IF match_next(a.ps, {"AND"}).matched
    THEN PTry(equality(advance(a.ps)), LAMBDA right :
              and_loop(POk(right.ps, Logical(a.v, "AND", peek(a.ps).line, right.v))))
    ELSE a

\* Parser::and
and(ps) == PTry(equality(ps), and_loop)

\* The loop of Parser::or, a being the expression so far.
or_loop(a) ==
    IF match_next(a.ps, {"OR"}).matched
    THEN PTry(and(advance(a.ps)), LAMBDA right :
              or_loop(POk(right.ps, Logical(a.v, "OR", peek(a.ps).line, right.v))))
    ELSE a

\* Parser::or
or(ps) == PTry(and(ps), or_loop)

\* Parser::assignment after the target, the = and the value.
assignment_target(expr, equals, value) ==
    CASE expr.kind = "Variable" ->
             POk(value.ps, Assignment(expr.name, expr.line, value.v, expr.id))
      [] expr.kind = "Get" ->
             POk(value.ps, Set(expr.kids[1], expr.name, expr.line, value.v))
      [] OTHER -> ParserError_new(value.ps, equals, "Invalid assignment target")

\* Parser::assignment
assignment(ps) ==
    PTry(or(ps), LAMBDA expr :
         IF match_next(expr.ps, {"EQUAL"}).matched
         THEN PTry(assignment(advance(expr.ps)), LAMBDA value :
                   assignment_target(expr.v, peek(expr.ps), value))
         ELSE expr)

\* Parser::expression
expression(ps) == assignment(ps)

\* A variant of loop_enter that leaves the counter alone.
loop_enter_none(ps) == ps

\* self.loop_depth += 1
loop_enter(ps) == [ps EXCEPT !.loop_depth = @ + 1]

\* self.loop_depth -= 1
loop_leave(ps) == [ps EXCEPT !.loop_depth = @ - 1]

RECURSIVE declaration(_)
RECURSIVE statement(_)
RECURSIVE block_loop(_, _)
RECURSIVE parameters_loop(_, _)
RECURSIVE methods_loop(_, _, _)

\* Parser::expression_statement
expression_statement(ps) ==
    PTry(expression(ps), LAMBDA value :
    PTry(consume(value.ps, "SEMICOLON", "Expect ';' after value."), LAMBDA c :
         POk(c.ps, ExprStatement(value.v))))

\* Parser::print_statement
print_statement(ps) ==
    PTry(expression(ps), LAMBDA value :
         IF value.v = Null
         THEN ParserError_new(value.ps, previous(value.ps),
                              "Expect expression after PRINT")
         ELSE PTry(consume(value.ps, "SEMICOLON", "Expect ';' after value."),
                   LAMBDA c : POk(c.ps, PrintStatement(value.v))))

\* Parser::return_statement after the value (<<>> for none)
return_statement_end(ps, keyword, value) ==
    PTry(consume(ps, "SEMICOLON", "Expect ';' after a return value."), LAMBDA c :
         POk(c.ps, ReturnStatement(keyword.line, value)))

\* Parser::return_statement
return_statement(ps) ==
    IF check(ps, "SEMICOLON") THEN return_statement_end(ps, previous(ps), <<>>)
    ELSE PTry(expression(ps), LAMBDA value :
              return_statement_end(value.ps, previous(ps), <<value.v>>))

\* The loop of Parser::block_statement
block_loop(ps, statements) ==
    IF ~ check(ps, "RIGHT_BRACE") /\ ~ is_at_end(ps)
    THEN PTry(declaration(ps), LAMBDA d : block_loop(d.ps, Append(statements, d.v)))
    ELSE POk(ps, statements)

\* Parser::block_statement
block_statement(ps) ==
    PTry(block_loop(ps, <<>>), LAMBDA b :
    PTry(consume(b.ps, "RIGHT_BRACE", "Expect '}' after block."), LAMBDA c :
         POk(c.ps, BlockStatement(b.v))))

\* Parser::var_declaration after the initializer (<<>> for none)
var_declaration_end(ps, name, initializer) ==
    PTry(consume(ps, "SEMICOLON", "Expect ';' after variable declaration."),
         LAMBDA c : POk(c.ps, VarDeclaration(name.lexeme, name.line, initializer)))

\* Parser::var_declaration
var_declaration(ps) ==
    PTry(consume(ps, "IDENTIFIER", "Expect variable name."), LAMBDA name :
         IF match_next(name.ps, {"EQUAL"}).matched
         THEN PTry(expression(advance(name.ps)), LAMBDA e :
                   var_declaration_end(e.ps, name.v, <<e.v>>))
         ELSE var_declaration_end(name.ps, name.v, <<>>))

\* The loop over the parameters in Parser::function: the error for a
\* parameter after the 255th is reported and the loop goes on.
parameters_loop(ps, parameters) ==
    PTry(consume(IF Len(parameters) >= ArgumentLimit
                 THEN Parser_error(ps, peek(ps),
                                   "Cant have more than 255 parameters").ps
                 ELSE ps,
                 "IDENTIFIER", "Expect parameter name"),
         LAMBDA c :
            IF match_next(c.ps, {"COMMA"}).matched
            THEN parameters_loop(advance(c.ps), Append(parameters, c.v.lexeme))
            ELSE POk(c.ps, Append(parameters, c.v.lexeme)))

\* Parser::function after the parameters
function_body(ps, kind, name, parameters) ==
    PTry(consume(ps, "RIGHT_PAREN", "Expect ')' after parameters"), LAMBDA c :
    PTry(consume(c.ps, "LEFT_BRACE", "Expect '{' before " \o kind \o " body"), LAMBDA b :
    PTry(block_statement(b.ps), LAMBDA body :
         POk(body.ps, FunctionDecl(name.lexeme, name.line, parameters, body.v.body)))))

\* Parser::function after the name and the (
function_parameters(ps, kind, name) ==
    IF check(ps, "RIGHT_PAREN") THEN function_body(ps, kind, name, <<>>)
    ELSE PTry(parameters_loop(ps, <<>>), LAMBDA p :
              function_body(p.ps, kind, name, p.v))

\* Parser::function
function(ps, kind) ==
    PTry(consume(ps, "IDENTIFIER", "Expect " \o kind \o " name."), LAMBDA name :
    PTry(consume(name.ps, "LEFT_PAREN", "Expect '(' after " \o kind \o " name."),
         LAMBDA c : function_parameters(c.ps, kind, name.v)))

\* The loop over the methods in Parser::class_declaration
methods_loop(ps, name, methods) ==
    IF ~ check(ps, "RIGHT_BRACE") /\ ~ is_at_end(ps)
    THEN PTry(function(ps, "method"), LAMBDA f :
              methods_loop(f.ps, name, Append(methods, f.v)))
    ELSE PTry(consume(ps, "RIGHT_BRACE", "Expect '}' after class body"), LAMBDA c :
              POk(c.ps, ClassDecl(name.lexeme, name.line, methods)))

\* Parser::class_declaration
class_declaration(ps) ==
    PTry(consume(ps, "IDENTIFIER", "Expect class name."), LAMBDA name :
    PTry(consume(name.ps, "LEFT_BRACE", "Expect '{' before class body"), LAMBDA c :
         methods_loop(c.ps, name.v, <<>>)))

\* Parser::if_statement after the then branch
if_statement_else(condition, then_branch) ==
    IF match_next(then_branch.ps, {"ELSE"}).matched
    THEN PTry(statement(advance(then_branch.ps)), LAMBDA else_branch :
              POk(else_branch.ps,
                  IfStatement(condition, then_branch.v, <<else_branch.v>>)))
    ELSE POk(then_branch.ps, IfStatement(condition, then_branch.v, <<>>))

\* Parser::if_statement
if_statement(ps) ==
    PTry(consume(ps, "LEFT_PAREN", "Expect '(' after 'if'."), LAMBDA p :
    PTry(expression(p.ps), LAMBDA condition :
    PTry(consume(condition.ps, "RIGHT_PAREN", "Expect ')' after 'if' condition"),
         LAMBDA c :
    PTry(statement(c.ps), LAMBDA then_branch :
         if_statement_else(condition.v, then_branch)))))

\* The body of a loop in Parser::while_statement and Parser::for_statement:
\* the counter is incremented, the body parsed, the counter decremented.
\* The history has the first token of the body when it is entered and its
\* last token when it is left.
loop_body(ps) ==
    PTry(statement(parse_event(loop_enter(ps),
                               [ev |-> "enter", at |-> ps.current + 1])),
         LAMBDA body :
         POk(parse_event(loop_leave(body.ps),
                         [ev |-> "leave", at |-> body.ps.current]),
             body.v))

\* Parser::while_statement
while_statement(ps) ==
    PTry(consume(ps, "LEFT_PAREN", "Expect '(' after 'while'."), LAMBDA p :
    PTry(expression(p.ps), LAMBDA condition :
    PTry(consume(condition.ps, "RIGHT_PAREN", "Expect ')' after 'while' condition."),
         LAMBDA c :
    PTry(loop_body(c.ps), LAMBDA body :
         POk(body.ps, WhileStatement(condition.v, body.v))))))

\* Parser::for_statement after the body: the increment is appended to the
\* body in a block, the loop is a while, the initializer goes before it in
\* a block.
for_desugar(initializer, condition, increment, body) ==
    LET body1 == IF increment # <<>>
                 THEN BlockStatement(<<body, ExprStatement(increment[1])>>)
                 ELSE body
        loop == WhileStatement(IF condition = <<>> THEN True ELSE condition[1], body1)
    IN  IF initializer # <<>> THEN BlockStatement(<<initializer[1], loop>>) ELSE loop

\* Parser::for_statement after the increment (<<>> for none)
for_statement_body(ps, initializer, condition, increment) ==
    PTry(consume(ps, "RIGHT_PAREN", "Expect ')' after 'for' clauses"), LAMBDA c :
    PTry(loop_body(c.ps), LAMBDA body :
         POk(body.ps, for_desugar(initializer, condition, increment, body.v))))

\* Parser::for_statement after the condition (<<>> for none)
for_statement_increment(ps, initializer, condition) ==
    PTry(consume(ps, "SEMICOLON", "Expect ';' after loop condition"), LAMBDA c :
         IF check(c.ps, "RIGHT_PAREN")
         THEN for_statement_body(c.ps, initializer, condition, <<>>)
         ELSE PTry(expression(c.ps), LAMBDA e :
                   for_statement_body(e.ps, initializer, condition, <<e.v>>)))

\* Parser::for_statement after the initializer (<<>> for none)
for_statement_condition(ps, initializer) ==
    IF check(ps, "SEMICOLON") THEN for_statement_increment(ps, initializer, <<>>)
    ELSE PTry(expression(ps), LAMBDA e :
              for_statement_increment(e.ps, initializer, <<e.v>>))

\* Parser::for_statement
for_statement(ps) ==
    PTry(consume(ps, "LEFT_PAREN", "Expect '(' after 'for'."), LAMBDA p :
         IF match_next(p.ps, {"SEMICOLON"}).matched
         THEN for_statement_condition(advance(p.ps), <<>>)
         ELSE PTry(IF match_next(p.ps, {"VAR"}).matched
                   THEN var_declaration(advance(p.ps))
                   ELSE expression_statement(p.ps),
                   LAMBDA i : for_statement_condition(i.ps, <<i.v>>)))

\* Parser::break_statement and Parser::continue_statement; the history has
\* the counter the keyword was met with.
jump_statement(ps, kind, word) ==
    IF ps.loop_depth = 0
    THEN ParserError_new(parse_event(ps, [ev |-> "jump", kind |-> kind,
                                          at |-> ps.current, loop_depth |-> 0,
                                          accepted |-> FALSE]),
                         previous(ps), "Must be inside a loop to use '" \o word \o "'.")
    ELSE PTry(consume(parse_event(ps, [ev |-> "jump", kind |-> kind,
                                       at |-> ps.current,
                                       loop_depth |-> ps.loop_depth,
                                       accepted |-> TRUE]),
                      "SEMICOLON", "Expect ';' after '" \o word \o "."),
              LAMBDA c : POk(c.ps, IF kind = "Break" THEN Break ELSE Continue))

\* Parser::break_statement
break_statement(ps) == jump_statement(ps, "Break", "break")

\* Parser::continue_statement
continue_statement(ps) == jump_statement(ps, "Continue", "continue")

\* Parser::statement after the match on the first token; the history has
\* the counter every statement starts with.
statement_of(ps, m) ==
    LET t == previous(m.ps)
    IN  IF ~ m.matched THEN expression_statement(m.ps)
        ELSE CASE t.token_type = "PRINT" -> print_statement(m.ps)
               [] t.token_type = "RETURN" -> return_statement(m.ps)
               [] t.token_type = "IF" -> if_statement(m.ps)
               [] t.token_type = "WHILE" -> while_statement(m.ps)
               [] t.token_type = "FOR" -> for_statement(m.ps)
               [] t.token_type = "BREAK" -> break_statement(m.ps)
               [] t.token_type = "CONTINUE" -> continue_statement(m.ps)
               [] t.token_type = "LEFT_BRACE" -> block_statement(m.ps)

\* Parser::statement
statement(ps) ==
    statement_of(ps, match_next(parse_event(ps, [ev |-> "statement",
                                                 at |-> ps.current + 1,
                                                 loop_depth |-> ps.loop_depth]),
                                {"PRINT", "RETURN", "IF", "WHILE", "FOR", "BREAK",
                                 "CONTINUE", "LEFT_BRACE"}))

\* Parser::declaration
declaration(ps) ==
    IF match_next(ps, {"CLASS"}).matched THEN class_declaration(advance(ps))
    ELSE IF match_next(ps, {"FUN"}).matched THEN function(advance(ps), "function")
    ELSE IF match_next(ps, {"VAR"}).matched THEN var_declaration(advance(ps))
    ELSE statement(ps)

\* The loop of Parser::parse_statement: a declaration's Err is reported and
\* the process exits with 65.
RECURSIVE parse_loop(_, _)
parse_loop(ps, statements) ==
    IF is_at_end(ps) THEN POk(ps, statements)
    ELSE PTry(declaration(ps), LAMBDA d : parse_loop(d.ps, Append(statements, d.v)))

\* Parser::parse_statement: Ok with the statements, or the parser at the
\* exit with the error reported.
parse_statement(ps) ==
    Then(parse_loop(ps, <<>>), LAMBDA r :
         IF r.ok THEN r
         ELSE [r EXCEPT !.ps.errs = Append(@, ParserError_error(r.v, r.message))])

\* ---------------------------------------------------------------- programs
\* The statements a successful Parser::parse_statement hands to Lox::run,
\* by family.  Tokens sit on lines 1..MaxLine.
RECURSIVE Nest(_, _)
Nest(statements, d) ==
    IF d = 0 THEN statements ELSE <<BlockStatement(Nest(statements, d - 1))>>

CallStatement(name, line, id, arguments) ==
    ExprStatement(Call(Variable(name, line, id), line, arguments))

\* var a = "global"; { fun show() { print a; } show(); var a = "block"; show(); .. }
ShadowProgram(n) ==
    <<VarDeclaration("a", 1, <<Str("global")>>),
      BlockStatement(
        <<FunctionDecl("show", 1, <<>>, <<PrintStatement(Variable("a", 1, 1))>>),
          CallStatement("show", 1, 2, <<>>),
          VarDeclaration("a", 2, <<Str("block")>>)>>
        \o [i \in 1..n |-> CallStatement("show", 2, 2 + i, <<>>)])>>

\* { var x = 1; {..{ x = 5; }..} print x; x = 5; print x; }
\* the nested assignment on line l, the other tokens on line 1.
AliasProgram(d, l) ==
    <<BlockStatement(
        <<VarDeclaration("x", 1, <<Num(1)>>)>>
        \o Nest(<<ExprStatement(Assignment("x", l, Num(5), 1))>>, d)
        \o <<PrintStatement(Variable("x", 1, 2)),
             ExprStatement(Assignment("x", 1, Num(5), 3)),
             PrintStatement(Variable("x", 1, 4))>>)>>

\* { var a = "outer"; while (true) {..{ var a = "inner"; break; }..} print a; }
BreakProgram(d) ==
    <<BlockStatement(
        <<VarDeclaration("a", 1, <<Str("outer")>>),
          WhileStatement(True,
             Nest(<<VarDeclaration("a", 2, <<Str("inner")>>), Break>>, d)[1]),
          PrintStatement(Variable("a", 2, 1))>>)>>

\* var i = 0; while (i < n) { i = i + 1; continue?; } print i;
LoopProgram(n, continue) ==
    <<VarDeclaration("i", 1, <<Num(0)>>),
      WhileStatement(Binary(Variable("i", 1, 1), "LESS", 1, Num(n)),
         BlockStatement(
            <<ExprStatement(Assignment("i", 1,
                  Binary(Variable("i", 1, 2), "PLUS", 1, Num(1)), 3))>>
            \o (IF continue THEN <<Continue>> ELSE <<>>))),
      PrintStatement(Variable("i", 2, 4))>>

\* while (true) {}
ForeverProgram == <<WhileStatement(True, BlockStatement(<<>>))>>

\* fun f(a) { {..{ return a; }..} } print f(v); print f(v + 1);
ReturnProgram(d, v) ==
    <<FunctionDecl("f", 1, <<"a">>, Nest(<<ReturnStatement(1, <<Variable("a", 1, 1)>>)>>, d)),
      PrintStatement(Call(Variable("f", 1, 2), 1, <<Num(v)>>)),
      PrintStatement(Call(Variable("f", 2, 3), 2, <<Num(v + 1)>>))>>

\* fun g() { {..{ print "g"; }..} } print g();
FallProgram(d) ==
    <<FunctionDecl("g", 1, <<>>, Nest(<<PrintStatement(Str("g"))>>, d)),
      PrintStatement(Call(Variable("g", 1, 1), 1, <<>>))>>

\* fun f() { {..{ -"a"; }..} } { f(); }
ErrorProgram(d) ==
    <<FunctionDecl("f", 1, <<>>, Nest(<<ExprStatement(Unary("MINUS", 1, Str("a")))>>, d)),
      BlockStatement(<<CallStatement("f", 2, 1, <<>>)>>)>>

\* Scenario 3: fun makeCounter() { var i = 0; fun count() { i = i + 1; print i; }
\* return count; } var counter = makeCounter(); counter(); ..
CounterProgram(k) ==
    <<FunctionDecl("makeCounter", 1, <<>>,
        <<VarDeclaration("i", 1, <<Num(0)>>),
          FunctionDecl("count", 1, <<>>,
            <<ExprStatement(Assignment("i", 1,
                  Binary(Variable("i", 1, 1), "PLUS", 1, Num(1)), 2)),
              PrintStatement(Variable("i", 2, 3))>>),
          ReturnStatement(2, <<Variable("count", 2, 4)>>)>>),
      VarDeclaration("counter", 2, <<Call(Variable("makeCounter", 2, 5), 2, <<>>)>>)>>
    \o [j \in 1..k |-> CallStatement("counter", 2, 5 + j, <<>>)]

\* fun make() { var x = 0; fun inc() { x = x + 1; } fun get() { print x; }
\* inc(); .. get(); x = 10; get(); } make();
SharedProgram(k) ==
    <<FunctionDecl("make", 1, <<>>,
        <<VarDeclaration("x", 1, <<Num(0)>>),
          FunctionDecl("inc", 1, <<>>,
            <<ExprStatement(Assignment("x", 1,
                  Binary(Variable("x", 1, 1), "PLUS", 1, Num(1)), 2))>>),
          FunctionDecl("get", 1, <<>>, <<PrintStatement(Variable("x", 2, 3))>>)>>
        \o [j \in 1..k |-> CallStatement("inc", 1, 3 + j, <<>>)]
        \o <<CallStatement("get", 1, 10, <<>>),
             ExprStatement(Assignment("x", 2, Num(10), 11)),
             CallStatement("get", 2, 12, <<>>)>>),
      CallStatement("make", 2, 13, <<>>)>>

\* class A {} var a = A(); var b = a; b.f = 1; print a.f;   (through = "b")
\* class A {} var a = A(); var b = a; a.f = 1; print a.f;   (through = "a")
FieldProgram(through) ==
    <<ClassDecl("A", 1, <<>>),
      VarDeclaration("a", 1, <<Call(Variable("A", 1, 1), 1, <<>>)>>),
      VarDeclaration("b", 1, <<Variable("a", 1, 2)>>),
      ExprStatement(Set(Variable(through, 2, 3), "f", 2, Num(1))),
      PrintStatement(Get(Variable("a", 2, 4), "f", 2))>>

\* class A { m() { this.x = 1; } } var a = A(); a.m(); print a.x;
MethodProgram ==
    <<ClassDecl("A", 1,
        <<FunctionDecl("m", 1, <<>>,
            <<ExprStatement(Set(This(1, 1), "x", 1, Num(1)))>>)>>),
      VarDeclaration("a", 1, <<Call(Variable("A", 1, 2), 1, <<>>)>>),
      ExprStatement(Call(Get(Variable("a", 2, 3), "m", 2), 2, <<>>)),
      PrintStatement(Get(Variable("a", 2, 4), "x", 2))>>

\* class P { init(x) { this.x = x; this.y = 2; return?; } }
\* var p = P(v); print p.x; print p.init(v + 1).x;
InitProgram(v, return) ==
    <<ClassDecl("P", 1,
        <<FunctionDecl("init", 1, <<"x">>,
            <<ExprStatement(Set(This(1, 1), "x", 1, Variable("x", 1, 2))),
              ExprStatement(Set(This(1, 3), "y", 1, Num(2)))>>
            \o (IF return THEN <<ReturnStatement(1, <<>>)>> ELSE <<>>))>>),
      VarDeclaration("p", 1, <<Call(Variable("P", 1, 4), 1, <<Num(v)>>)>>),
      PrintStatement(Get(Variable("p", 2, 5), "x", 2)),
      PrintStatement(Get(Call(Get(Variable("p", 2, 6), "init", 2), 2, <<Num(v + 1)>>),
                         "x", 2))>>

\* class E { m() { return 1; } } print E(); print E().m(); E(1);
NoInitProgram ==
    <<ClassDecl("E", 1, <<FunctionDecl("m", 1, <<>>, <<ReturnStatement(1, <<Num(1)>>)>>)>>),
      PrintStatement(Call(Variable("E", 1, 1), 1, <<>>)),
      PrintStatement(Call(Get(Call(Variable("E", 2, 2), 2, <<>>), "m", 2), 2, <<>>)),
      ExprStatement(Call(Variable("E", 2, 3), 2, <<Num(1)>>))>>

\* class A { m() { while (true) {..{ break; }..} return this; } } print A().m();
ThisProgram(d) ==
    <<ClassDecl("A", 1,
        <<FunctionDecl("m", 1, <<>>,
            (IF d = 0 THEN <<>> ELSE <<WhileStatement(True, Nest(<<Break>>, d)[1])>>)
            \o <<ReturnStatement(1, <<This(1, 1)>>)>>)>>),
      PrintStatement(Call(Get(Call(Variable("A", 2, 2), 2, <<>>), "m", 2), 2, <<>>))>>

\* fun g(n) { print n; return n; }
EchoDecl ==
    FunctionDecl("g", 1, <<"n">>,
        <<PrintStatement(Variable("n", 1, 1)),
          ReturnStatement(1, <<Variable("n", 1, 2)>>)>>)

\* g(j), the node numbered 10 + j
Echo(j) == Call(Variable("g", 2, 10 + j), 2, <<Num(j)>>)

\* fun g(n) { print n; return n; } fun f(x, y) { print "body"; }
\* f(g(1), .., g(m));
ArityProgram(m) ==
    <<EchoDecl,
      FunctionDecl("f", 1, <<"x", "y">>, <<PrintStatement(Str("body"))>>),
      ExprStatement(Call(Variable("f", 2, 3), 2, [j \in 1..m |-> Echo(j)]))>>

\* fun g(n) { print n; return n; } g(0)(g(1), g(2));
NotCallableProgram ==
    <<EchoDecl, ExprStatement(Call(Echo(0), 2, <<Echo(1), Echo(2)>>))>>

\* i = i + 1;   (the nodes numbered id, id + 1)
Increment(name, id) ==
    ExprStatement(Assignment(name, 1,
        Binary(Variable(name, 1, id), "PLUS", 1, Num(1)), id + 1))

\* var i = 0; var j = 0;
\* while (i < n) { i = i + 1; j = 0;
\*    while (j < 2) { j = j + 1; print "in"; break/continue; print "no"; }
\*    print i; }
LoopsProgram(kind, n) ==
    <<VarDeclaration("i", 1, <<Num(0)>>),
      VarDeclaration("j", 1, <<Num(0)>>),
      WhileStatement(Binary(Variable("i", 1, 1), "LESS", 1, Num(n)),
         BlockStatement(
            <<Increment("i", 2),
              ExprStatement(Assignment("j", 2, Num(0), 4)),
              WhileStatement(Binary(Variable("j", 2, 5), "LESS", 2, Num(2)),
                 BlockStatement(
                    <<Increment("j", 6),
                      PrintStatement(Str("in")),
                      IF kind = "Break" THEN Break ELSE Continue,
                      PrintStatement(Str("no"))>>)),
              PrintStatement(Variable("i", 2, 8))>>))>>

\* var i = 0; while (i < 3) { i = i + 1; if (i == 2) continue; print i; }
SkipProgram ==
    <<VarDeclaration("i", 1, <<Num(0)>>),
      WhileStatement(Binary(Variable("i", 1, 1), "LESS", 1, Num(3)),
         BlockStatement(
            <<Increment("i", 2),
              IfStatement(Binary(Variable("i", 2, 4), "EQUAL_EQUAL", 2, Num(2)),
                          Continue, <<>>),
              PrintStatement(Variable("i", 2, 5))>>))>>

\* print 1; return 1;   (the resolver rejects a return outside a function)
TopReturnProgram == <<PrintStatement(Num(1)), ReturnStatement(1, <<Num(1)>>)>>

Programs ==
    {ShadowProgram(n) : n \in 1..MaxCalls}
    \cup {AliasProgram(d, l) : d \in 1..MaxDepth, l \in 1..MaxLine}
    \cup {BreakProgram(d) : d \in 1..MaxDepth}
    \cup {LoopProgram(n, c) : n \in 0..MaxIter, c \in BOOLEAN}
    \cup {ForeverProgram, MethodProgram, NoInitProgram, TopReturnProgram}
    \cup {ReturnProgram(d, v) : d \in 0..MaxDepth, v \in {1}}
    \cup {FallProgram(d) : d \in 0..MaxDepth}
    \cup {ErrorProgram(d) : d \in 0..MaxDepth}
    \cup {CounterProgram(k) : k \in 1..MaxCalls}
    \cup {SharedProgram(k) : k \in 1..MaxCalls}
    \cup {FieldProgram(t) : t \in {"a", "b"}}
    \cup {InitProgram(v, r) : v \in {7}, r \in BOOLEAN}
    \cup {ThisProgram(d) : d \in 0..MaxDepth}
    \cup {ArityProgram(m) : m \in 0..MaxCalls}
    \cup {NotCallableProgram, SkipProgram}
    \cup {LoopsProgram(k, n) : k \in {"Break", "Continue"}, n \in 1..2}

\* ----------------------------------------------------------------- sources
\* Literal (scanner/token/mod.rs)
Literal_Null == [kind |-> "Null"]
Literal_Float(n) == [kind |-> "Float", n |-> n]
Literal_String(s) == [kind |-> "String", s |-> s]

\* The token types of the one- and two-character tokens (Scanner::scan_token)
\* and of the keywords (keywords()).
TokenTypes ==
    [x \in {"(", ")", "{", "}", ",", ".", "-", "+", ";", "*", "/", "!", "!=", "=",
            "==", "<", "<=", ">", ">=", "and", "break", "class", "continue",
            "else", "false", "for", "fun", "if", "nil", "or", "print", "return",
            "super", "this", "true", "var", "while"} |->
        CASE x = "(" -> "LEFT_PAREN" [] x = ")" -> "RIGHT_PAREN"
          [] x = "{" -> "LEFT_BRACE" [] x = "}" -> "RIGHT_BRACE"
          [] x = "," -> "COMMA" [] x = "." -> "DOT" [] x = "-" -> "MINUS"
          [] x = "+" -> "PLUS" [] x = ";" -> "SEMICOLON" [] x = "*" -> "STAR"
          [] x = "/" -> "SLASH" [] x = "!" -> "BANG" [] x = "!=" -> "BANG_EQUAL"
          [] x = "=" -> "EQUAL" [] x = "==" -> "EQUAL_EQUAL" [] x = "<" -> "LESS"
          [] x = "<=" -> "LESS_EQUAL" [] x = ">" -> "GREATER"
          [] x = ">=" -> "GREATER_EQUAL" [] x = "and" -> "AND"
          [] x = "break" -> "BREAK" [] x = "class" -> "CLASS"
          [] x = "continue" -> "CONTINUE" [] x = "else" -> "ELSE"
          [] x = "false" -> "FALSE" [] x = "for" -> "FOR" [] x = "fun" -> "FUN"
          [] x = "if" -> "IF" [] x = "nil" -> "NIL" [] x = "or" -> "OR"
          [] x = "print" -> "PRINT" [] x = "return" -> "RETURN"
          [] x = "super" -> "SUPER" [] x = "this" -> "THIS" [] x = "true" -> "TRUE"
          [] x = "var" -> "VAR" [] x = "while" -> "WHILE"]

\* The tokens Scanner::add_token makes of a symbol or keyword, of an
\* identifier, of a number and of a string, on line 1.
K(lexeme) == Token(TokenTypes[lexeme], lexeme, Literal_Null, 1)
I(lexeme) == Token("IDENTIFIER", lexeme, Literal_Null, 1)
N(n) == Token("NUMBER", ToString(n), Literal_Float(n), 1)
S(text) == Token("STRING", "\"" \o text \o "\"", Literal_String(text), 1)

\* What Scanner::scan_tokens leaves of a source whose lines hold the given
\* tokens: each token with its line, and EOF on the last line.  had_error is
\* set when the source held a character that starts no token (reported, no
\* token made of it).
Scanned(lines, had_error) ==
    LET RECURSIVE cat(_)
        cat(i) == IF i > Len(lines) THEN <<>>
                  ELSE [j \in 1..Len(lines[i]) |-> [lines[i][j] EXCEPT !.line = i]]
                       \o cat(i + 1)
    IN  [tokens |-> cat(1) \o <<Token("EOF", "", Literal_Null, Len(lines))>>,
         had_error |-> had_error]

\* var x = 0; for (var i = 0; i < 3; i = i + 1) { if (i == 1) continue;
\* x = x + i; } print x;       (with or without the if statement)
ForSource(continue) ==
    Scanned(<<
        <<K("var"), I("x"), K("="), N(0), K(";"),
          K("for"), K("("), K("var"), I("i"), K("="), N(0), K(";"),
          I("i"), K("<"), N(3), K(";"),
          I("i"), K("="), I("i"), K("+"), N(1), K(")"), K("{")>>
        \o (IF continue
            THEN <<K("if"), K("("), I("i"), K("=="), N(1), K(")"),
                   K("continue"), K(";")>>
            ELSE <<>>)
        \o <<I("x"), K("="), I("x"), K("+"), I("i"), K(";"), K("}"),
             K("print"), I("x"), K(";")>> >>,
        FALSE)

\* break; or continue; under depth loops, a while loop around a for loop
\* around a while loop ..., with the same jump after every inner loop:
\*   break;
\*   for (;;) { break; break; }
\*   while (true) { for (;;) { break; break; } break; }
RECURSIVE JumpTokens(_, _)
JumpTokens(word, depth) ==
    IF depth = 0 THEN <<K(word), K(";")>>
    ELSE (IF depth % 2 = 0
          THEN <<K("while"), K("("), K("true"), K(")"), K("{")>>
          ELSE <<K("for"), K("("), K(";"), K(";"), K(")"), K("{")>>)
         \o JumpTokens(word, depth - 1) \o <<K(word), K(";"), K("}")>>

JumpSource(word, depth) == Scanned(<<JumpTokens(word, depth)>>, FALSE)

\* while (false) print 1; break;       (a jump after a loop)
AfterLoopSource(word) ==
    Scanned(<< <<K("while"), K("("), K("false"), K(")"), K("print"), N(1), K(";"),
                 K(word), K(";")>> >>,
            FALSE)

\* while (true) { fun f() { break; } f(); }
FunctionInLoopSource(word) ==
    Scanned(<< <<K("while"), K("("), K("true"), K(")"), K("{"),
                 K("fun"), I("f"), K("("), K(")"), K("{"), K(word), K(";"), K("}"),
                 I("f"), K("("), K(")"), K(";"), K("}")>> >>,
            FALSE)

\* The literals of the operands: nil, false, true, 0 and "".
Operands == {K("nil"), K("false"), K("true"), N(0), S("")}

\* fun g(n) { print n; return n; } print g(a) or g(b);      (or: and)
LogicalSource(word, a, b) ==
    Scanned(<<
        <<K("fun"), I("g"), K("("), I("n"), K(")"), K("{"),
          K("print"), I("n"), K(";"), K("return"), I("n"), K(";"), K("}")>>,
        <<K("print"), I("g"), K("("), a, K(")"), K(word),
          I("g"), K("("), b, K(")"), K(";")>> >>,
        FALSE)

\* n times the token, with commas in between
Listed(token, n) ==
    [i \in 1..(IF n = 0 THEN 0 ELSE 2 * n - 1) |-> IF i % 2 = 1 THEN token ELSE K(",")]

\* print "before"; clock(0, .., 0);       (n arguments)
ArgumentsSource(n) ==
    Scanned(<<
        <<K("print"), S("before"), K(";")>>,
        <<I("clock"), K("(")>> \o Listed(N(0), n) \o <<K(")"), K(";")>> >>,
        FALSE)

\* fun f(a, .., a) { } print "before";       (n parameters)
ParametersSource(n) ==
    Scanned(<<
        <<K("fun"), I("f"), K("(")>> \o Listed(I("a"), n)
        \o <<K(")"), K("{"), K("}")>>,
        <<K("print"), S("before"), K(";")>> >>,
        FALSE)

\* The tokens between depth pairs of braces
RECURSIVE Braced(_, _)
Braced(tokens, depth) ==
    IF depth = 0 THEN tokens
    ELSE <<K("{")>> \o Braced(tokens, depth - 1) \o <<K("}")>>

\* var a = 1; { var a = a; print a; }      (with or without the first
\* declaration, under depth pairs of braces)
OwnInitializerSource(outer, depth) ==
    Scanned(<<
        IF outer THEN <<K("var"), I("a"), K("="), N(1), K(";")>> ELSE <<>>,
        Braced(<<K("var"), I("a"), K("="), I("a"), K(";"),
                 K("print"), I("a"), K(";")>>, depth) >>,
        FALSE)

\* { var a = 1; { var b = a; print b; } }
OtherInitializerSource ==
    Scanned(<< <<K("{"), K("var"), I("a"), K("="), N(1), K(";"),
                 K("{"), K("var"), I("b"), K("="), I("a"), K(";"),
                 K("print"), I("b"), K(";"), K("}"), K("}")>> >>,
            FALSE)

\* fun f(a) { var b = a; print b; } f(1);
ParameterSource ==
    Scanned(<< <<K("fun"), I("f"), K("("), I("a"), K(")"), K("{"),
                 K("var"), I("b"), K("="), I("a"), K(";"),
                 K("print"), I("b"), K(";"), K("}")>>,
               <<I("f"), K("("), N(1), K(")"), K(";")>> >>,
            FALSE)

\* class C { m(a) { var b = a; print b; } } C().m(1);
MethodParameterSource ==
    Scanned(<< <<K("class"), I("C"), K("{"), I("m"), K("("), I("a"), K(")"), K("{"),
                 K("var"), I("b"), K("="), I("a"), K(";"),
                 K("print"), I("b"), K(";"), K("}"), K("}")>>,
               <<I("C"), K("("), K(")"), K("."), I("m"), K("("), N(1), K(")"),
                 K(";")>> >>,
            FALSE)

\* A declaration of a: var a;  fun a() { }  class a { }
Declaration(kind) ==
    CASE kind = "var" -> <<K("var"), I("a"), K(";")>>
      [] kind = "fun" -> <<K("fun"), I("a"), K("("), K(")"), K("{"), K("}")>>
      [] kind = "class" -> <<K("class"), I("a"), K("{"), K("}")>>

\* { var a; fun a() { } } print 1;      (two declarations of a of the given
\* kinds under depth pairs of braces, the second one in braces of its own
\* when inner)
RedeclareSource(first, second, depth, inner) ==
    Scanned(<<
        Braced(Declaration(first) \o Braced(Declaration(second), IF inner THEN 1 ELSE 0),
               depth),
        <<K("print"), N(1), K(";")>> >>,
        FALSE)

\* fun f(a, a) { } print 1;   and   fun f(a) { { var a; } } print 1;
SameParameterSource(shadow) ==
    Scanned(<<
        IF shadow
        THEN <<K("fun"), I("f"), K("("), I("a"), K(")"), K("{"), K("{"),
               K("var"), I("a"), K(";"), K("}"), K("}")>>
        ELSE <<K("fun"), I("f"), K("("), I("a"), K(","), I("a"), K(")"),
               K("{"), K("}")>>,
        <<K("print"), N(1), K(";")>> >>,
        FALSE)

\* return; or return 1;
ReturnTokens(value) ==
    <<K("return")>> \o (IF value THEN <<N(1)>> ELSE <<>>) \o <<K(";")>>

\* name() { tokens }
MethodTokens(name, tokens) ==
    <<I(name), K("("), K(")"), K("{")>> \o tokens \o <<K("}")>>

\* fun name() { tokens }
FunTokens(name, tokens) == <<K("fun")>> \o MethodTokens(name, tokens)

\* class C { tokens }
ClassTokens(tokens) == <<K("class"), I("C"), K("{")>> \o tokens \o <<K("}")>>

\* The places of a return statement.
ReturnContexts ==
    {"top", "block", "function", "method", "init", "function in init",
     "after function", "after function in init", "after function in function",
     "after method in function"}

\* A return statement (with or without a value) at the given place,
\* followed by print 1;
ReturnSource(context, value) ==
    Scanned(<<
        CASE context = "top" -> ReturnTokens(value)
          [] context = "block" -> Braced(ReturnTokens(value), 1)
          [] context = "function" -> FunTokens("f", ReturnTokens(value))
          [] context = "method" ->
                 ClassTokens(MethodTokens("m", ReturnTokens(value)))
          [] context = "init" ->
                 ClassTokens(MethodTokens("init", ReturnTokens(value)))
          [] context = "function in init" ->
                 ClassTokens(MethodTokens("init", FunTokens("g", ReturnTokens(value))))
          [] context = "after function" ->
                 FunTokens("g", ReturnTokens(TRUE)) \o ReturnTokens(value)
          [] context = "after function in init" ->
                 ClassTokens(MethodTokens("init",
                     FunTokens("g", ReturnTokens(TRUE)) \o ReturnTokens(value)))
          [] context = "after function in function" ->
                 FunTokens("f", FunTokens("g", <<>>) \o ReturnTokens(value))
          [] context = "after method in function" ->
                 FunTokens("f", ClassTokens(MethodTokens("init", <<>>))
                                \o ReturnTokens(value)),
        <<K("print"), N(1), K(";")>> >>,
        FALSE)

\* The places of a this expression.
ThisContexts ==
    {"top", "block", "function", "method", "init", "function in method",
     "after class", "after class in function", "after class in method"}

\* print this; at the given place, followed by print 1;
ThisSource(context) ==
    Scanned(<<
        CASE context = "top" -> <<K("print"), K("this"), K(";")>>
          [] context = "block" -> Braced(<<K("print"), K("this"), K(";")>>, 1)
          [] context = "function" ->
                 FunTokens("f", <<K("print"), K("this"), K(";")>>)
          [] context = "method" ->
                 ClassTokens(MethodTokens("m", <<K("print"), K("this"), K(";")>>))
          [] context = "init" ->
                 ClassTokens(MethodTokens("init", <<K("print"), K("this"), K(";")>>))
          [] context = "function in method" ->
                 ClassTokens(MethodTokens("m",
                     FunTokens("g", <<K("print"), K("this"), K(";")>>)))
          [] context = "after class" ->
                 ClassTokens(MethodTokens("m", <<>>))
                 \o <<K("print"), K("this"), K(";")>>
          [] context = "after class in function" ->
                 FunTokens("f", ClassTokens(MethodTokens("m", <<>>))
                                \o <<K("print"), K("this"), K(";")>>)
          [] context = "after class in method" ->
                 ClassTokens(MethodTokens("m",
                     ClassTokens(MethodTokens("m", <<>>))
                     \o <<K("print"), K("this"), K(";")>>)),
        <<K("print"), N(1), K(";")>> >>,
        FALSE)

\* The places of a failing statement.
ErrorContexts == {"top", "block", "function", "method", "property"}

\* print -"a"; on line 2, at top level, in a block, in the body of a
\* function or method that begins on line 1 and is called on line 2; or
\* print 1 .x; on line 2.  Then print 1;
RuntimeErrorSource(context) ==
    Scanned(<<
        CASE context = "function" -> <<K("fun"), I("f"), K("("), K(")"), K("{")>>
          [] context = "method" ->
                 <<K("class"), I("C"), K("{"), I("f"), K("("), K(")"), K("{")>>
          [] context = "block" -> <<K("{")>>
          [] OTHER -> <<>>,
        (IF context = "property"
         THEN <<K("print"), N(1), K("."), I("x"), K(";")>>
         ELSE <<K("print"), K("-"), S("a"), K(";")>>)
        \o (CASE context = "function" -> <<K("}"), I("f"), K("("), K(")"), K(";")>>
               [] context = "method" ->
                      <<K("}"), K("}"), I("C"), K("("), K(")"), K("."), I("f"),
                        K("("), K(")"), K(";")>>
               [] context = "block" -> <<K("}")>>
               [] OTHER -> <<>>)
        \o <<K("print"), N(1), K(";")>> >>,
        FALSE)

\* The operands of a division: numbers and values that are no numbers.
Dividends == {N(0), N(1), N(2), N(6), K("nil"), K("true"), S("a")}

\* print a / b; print 1;
DivisionSource(a, b) ==
    Scanned(<< <<K("print"), a, K("/"), b, K(";"), K("print"), N(1), K(";")>> >>,
            FALSE)

\* The divisions whose quotient, if any, is an integer.
DivisionSources ==
    {DivisionSource(a, b) : a \in Dividends, b \in Dividends}
    \ {DivisionSource(N(1), N(2)), DivisionSource(N(1), N(6)),
        DivisionSource(N(2), N(6))}

\* The operands of a comparison: two functions, a bound method, a class
\* without and one with a method, an instance of each, and plain values.
Comparands == {"f", "g", "d.m", "C", "D", "c", "d", "1", "nil", "a"}

\* The kind of value an operand evaluates to.
ComparandKind(x) ==
    CASE x \in {"f", "g", "d.m"} -> "Function"
      [] x \in {"C", "D"} -> "Class"
      [] x \in {"c", "d"} -> "Instance"
      [] x = "1" -> "Double"
      [] x = "nil" -> "Nil"
      [] x = "a" -> "String"

ComparandTokens(x) ==
    CASE x = "d.m" -> <<I("d"), K("."), I("m")>>
      [] x = "1" -> <<N(1)>>
      [] x = "nil" -> <<K("nil")>>
      [] x = "a" -> <<S("a")>>
      [] OTHER -> <<I(x)>>

\* fun f() {} fun g() {} class C {} class D { m() {} }
\* var c = C(); var d = D();
\* print a == b; print a != b;
EqualitySource(a, b) ==
    Scanned(<<
        FunTokens("f", <<>>) \o FunTokens("g", <<>>) \o ClassTokens(<<>>)
        \o <<K("class"), I("D"), K("{")>> \o MethodTokens("m", <<>>) \o <<K("}")>>,
        <<K("var"), I("c"), K("="), I("C"), K("("), K(")"), K(";"),
          K("var"), I("d"), K("="), I("D"), K("("), K(")"), K(";")>>,
        <<K("print")>> \o ComparandTokens(a) \o <<K("==")>> \o ComparandTokens(b)
        \o <<K(";"), K("print")>> \o ComparandTokens(a) \o <<K("!=")>>
        \o ComparandTokens(b) \o <<K(";")>> >>,
        FALSE)

\* Expressions to print, by their text.
Printed == {"nil", "1", "true", "a", "(nil)", "!nil", "1 + 2", "nil == nil"}

PrintedTokens(e) ==
    CASE e = "nil" -> <<K("nil")>>
      [] e = "1" -> <<N(1)>>
      [] e = "true" -> <<K("true")>>
      [] e = "a" -> <<S("a")>>
      [] e = "(nil)" -> <<K("("), K("nil"), K(")")>>
      [] e = "!nil" -> <<K("!"), K("nil")>>
      [] e = "1 + 2" -> <<N(1), K("+"), N(2)>>
      [] e = "nil == nil" -> <<K("nil"), K("=="), K("nil")>>

\* The formatted value of each of these expressions.
PrintedValue(e) ==
    CASE e \in {"nil", "(nil)"} -> "nil"
      [] e \in {"true", "!nil", "nil == nil"} -> "true"
      [] e = "1" -> "1"
      [] e = "a" -> "a"
      [] e = "1 + 2" -> "3"

\* print e; print 1;
PrintSource(e) ==
    Scanned(<< <<K("print")>> \o PrintedTokens(e) \o <<K(";")>>,
               <<K("print"), N(1), K(";")>> >>, FALSE)

\* Statements with a missing expression.
Missing == {"var a = ;", "();", "f(,);", "x = ;"}

\* var x; fun f(a, b) {}
\* a statement with a missing expression
\* print 1;
MissingSource(m) ==
    Scanned(<<
        <<K("var"), I("x"), K(";"), K("fun"), I("f"), K("("), I("a"), K(","), I("b"),
          K(")"), K("{"), K("}")>>,
        CASE m = "var a = ;" -> <<K("var"), I("a"), K("="), K(";")>>
          [] m = "();" -> <<K("("), K(")"), K(";")>>
          [] m = "f(,);" -> <<I("f"), K("("), K(","), K(")"), K(";")>>
          [] m = "x = ;" -> <<I("x"), K("="), K(";")>>,
        <<K("print"), N(1), K(";")>> >>, FALSE)

\* The value expressions of a Set expression.
SetValues == {"constant", "yield", "other instance", "same field", "this"}

\* obj . n = value ;
SetTokens(obj, value) == <<obj, K("."), I("n"), K("=")>> \o value \o <<K(";")>>

\* obj . n + 1
FieldPlusOne(obj) == <<obj, K("."), I("n"), K("+"), N(1)>>

\* class C { m() { this.n = 1; this.n = this.n + 1; print this.n; } }
\* var c = C();
\* c.n = 2; print c.n;                   (constant)
\* print c.n = 3;                        (yield)
\* var d = C(); d.n = 1; c.n = d.n + 1; print c.n;    (other instance)
\* c.n = 1; c.n = c.n + 1; print c.n;    (same field)
\* c.m();                                (this)
SetSource(v) ==
    Scanned(<<
        ClassTokens(MethodTokens("m",
            SetTokens(K("this"), <<N(1)>>)
            \o SetTokens(K("this"), FieldPlusOne(K("this")))
            \o <<K("print"), K("this"), K("."), I("n"), K(";")>>))
        \o <<K("var"), I("c"), K("="), I("C"), K("("), K(")"), K(";")>>,
        CASE v = "constant" ->
                 SetTokens(I("c"), <<N(2)>>)
                 \o <<K("print"), I("c"), K("."), I("n"), K(";")>>
          [] v = "yield" ->
                 <<K("print")>> \o SetTokens(I("c"), <<N(3)>>)
          [] v = "other instance" ->
                 <<K("var"), I("d"), K("="), I("C"), K("("), K(")"), K(";")>>
                 \o SetTokens(I("d"), <<N(1)>>)
                 \o SetTokens(I("c"), FieldPlusOne(I("d")))
                 \o <<K("print"), I("c"), K("."), I("n"), K(";")>>
          [] v = "same field" ->
                 SetTokens(I("c"), <<N(1)>>)
                 \o SetTokens(I("c"), FieldPlusOne(I("c")))
                 \o <<K("print"), I("c"), K("."), I("n"), K(";")>>
          [] v = "this" ->
                 <<I("c"), K("."), I("m"), K("("), K(")"), K(";")>> >>,
        FALSE)

\* var 1;
\* var 2;            (two syntax errors)
TwoErrorsSource ==
    Scanned(<< <<K("var"), N(1), K(";")>>, <<K("var"), N(2), K(";")>> >>, FALSE)

\* print 1; @     (a character that starts no token)
BadCharacterSource == Scanned(<< <<K("print"), N(1), K(";")>> >>, TRUE)

\* The nesting of loops in the sources
MaxLoops == 2

Sources ==
    {ForSource(c) : c \in BOOLEAN}
    \cup {BadCharacterSource}
    \cup {JumpSource(w, d) : w \in {"break", "continue"}, d \in 0..MaxLoops}
    \cup {AfterLoopSource(w) : w \in {"break", "continue"}}
    \cup {FunctionInLoopSource(w) : w \in {"break", "continue"}}
    \cup {LogicalSource(w, a, b) : w \in {"or", "and"}, a \in Operands, b \in Operands}
    \cup {ArgumentsSource(n) : n \in {ArgumentLimit, ArgumentLimit + 1}}
    \cup {ParametersSource(n) : n \in {0, 1}}
    \cup {TwoErrorsSource}
    \cup {OwnInitializerSource(o, d) : o \in BOOLEAN, d \in 0..MaxDepth}
    \cup {OtherInitializerSource, ParameterSource, MethodParameterSource}
    \cup {RedeclareSource(k1, k2, d, i) :
              k1 \in {"var", "fun", "class"}, k2 \in {"var", "fun", "class"},
              d \in 0..MaxDepth, i \in BOOLEAN}
    \cup {SameParameterSource(sh) : sh \in BOOLEAN}
    \cup {ReturnSource(c, v) : c \in ReturnContexts, v \in BOOLEAN}
    \cup {ThisSource(c) : c \in ThisContexts}
    \cup {RuntimeErrorSource(c) : c \in ErrorContexts}
    \cup DivisionSources
    \cup {EqualitySource(a, b) : a \in Comparands, b \in Comparands}
    \cup {PrintSource(e) : e \in Printed}
    \cup {MissingSource(m) : m \in Missing}
    \cup {SetSource(v) : v \in SetValues}

\* ------------------------------------------------------------ state machine
VARIABLES scanner, ps, prog, phase, pc, st, rs, exit
vars == <<scanner, ps, prog, phase, pc, st, rs, exit>>

\* A run whose source is not followed: the parser has returned prog.
NoSource == Scanned(<<>>, FALSE)

\* Lox::run after scanner.scan_tokens() for the sources, and after a
\* successful parse (a new Interpreter, a new Resolver) for the programs.
Init ==
    /\ \/ /\ scanner \in Sources
          /\ prog = <<>>
          /\ phase = "scanned"
       \/ /\ scanner = NoSource
          /\ prog \in Programs
          /\ phase = "parsed"
    /\ ps = Parser_new(scanner.tokens)
    /\ pc = 1
    /\ st = Interpreter_new
    /\ rs = Resolver_new
    /\ exit = -1

\* Lox::run: if scanner.had_error { exit(65) }
ScanFailed ==
    /\ phase = "scanned"
    /\ scanner.had_error
    /\ phase' = "exit"
    /\ exit' = 65
    /\ UNCHANGED <<scanner, ps, prog, pc, st, rs>>

\* What Lox::run does with the result r of parse_statement (which exits
\* with 65 itself on an error).
Parsed(r) ==
    /\ ps' = r.ps
    /\ prog' = IF r.ok THEN r.v ELSE prog
    /\ phase' = IF r.ok THEN "parsed" ELSE "exit"
    /\ exit' = IF r.ok THEN exit ELSE 65

\* Lox::run: Parser::new(tokens), parser.parse_statement()
Parse ==
    /\ phase = "scanned"
    /\ ~ scanner.had_error
    /\ Parsed(parse_statement(Parser_new(scanner.tokens)))
    /\ UNCHANGED <<scanner, pc, st, rs>>

\* What Lox::run does with the result r of resolve_statements: exit 65 on
\* Err, else the interpreter (with the depth map) goes on.
Resolved(r) ==
    /\ rs' = r.r
    /\ st' = [st EXCEPT !.locals = r.r.locals]
    /\ phase' = IF r.ok THEN "interpret" ELSE "exit"
    /\ exit' = IF r.ok THEN exit ELSE 65

\* Lox::run: resolver.resolve_statements(statements); exit 65 on Err.
Resolve ==
    /\ phase = "parsed"
    /\ Resolved(resolve_statements(rs, prog, 1))
    /\ UNCHANGED <<scanner, ps, prog, pc>>

\* The match on the result v of a statement in
\* Interpreter::interpret_statements.
Interpreted(v) ==
    /\ st' = IF v.tag = "Err" THEN ValueError_error(v.st, v.err) ELSE v.st
    /\ phase' = CASE v.tag = "Ok" -> "interpret"
                  [] v.tag = "Err" -> "exit"
                  [] v.tag = "Panic" -> "panic"
                  [] OTHER -> "cut"
    /\ exit' = CASE v.tag = "Err" -> 70
                 [] v.tag = "Panic" -> 101
                 [] OTHER -> exit
    /\ pc' = IF v.tag = "Ok" THEN pc + 1 ELSE pc

\* One iteration of the loop of Interpreter::interpret_statements: Err is
\* reported and the process exits with 70; a panic ends the process.
InterpretStatement ==
    /\ phase = "interpret"
    /\ pc <= Len(prog)
    /\ Interpreted(interpret_statement(st, prog[pc]))
    /\ UNCHANGED <<scanner, ps, prog, rs>>

\* Interpreter::interpret_statements returns; Lox::run returns.
Finish ==
    /\ phase = "interpret"
    /\ pc > Len(prog)
    /\ phase' = "done"
    /\ exit' = 0
    /\ UNCHANGED <<scanner, ps, prog, pc, st, rs>>

Next == ScanFailed \/ Parse \/ Resolve \/ InterpretStatement \/ Finish

Spec == Init /\ [][Next]_vars

\* ------------------------------------------------- the resolver, by steps
\* The operations of the Resolver on its scope stack, one call per step, on
\* stacks of at most MaxScopes scopes.  rs.log holds the events of the last
\* step only.
Names == {"a", "this"}
ResolveTargets ==
    {Variable("a", 1, 1), Assignment("a", 1, Num(1), 2), This(1, 3)}

ResolverInit ==
    /\ scanner = NoSource
    /\ ps = Parser_new(scanner.tokens)
    /\ prog = <<>>
    /\ phase = "resolver"
    /\ pc = 0
    /\ st = Interpreter_new
    /\ rs = Resolver_new
    /\ exit = -1

\* Resolver::begin_scope
BeginScope ==
    /\ phase = "resolver"
    /\ Len(rs.scopes) < MaxScopes
    /\ rs' = [begin_scope(rs) EXCEPT !.log = <<>>]
    /\ UNCHANGED <<scanner, ps, prog, phase, pc, st, exit>>

\* Resolver::end_scope
EndScope ==
    /\ phase = "resolver"
    /\ rs.scopes # <<>>
    /\ rs' = [end_scope(rs) EXCEPT !.log = <<>>]
    /\ UNCHANGED <<scanner, ps, prog, phase, pc, st, exit>>

\* Resolver::declare; its Err ends the resolution (Lox::run exits with 65).
Declare(name) ==
    /\ phase = "resolver"
    /\ rs.scopes # <<>>
    /\ LET d == declare(rs, name)
       IN  /\ rs' = [d.r EXCEPT !.log = <<>>]
           /\ phase' = IF d.ok THEN phase ELSE "exit"
           /\ exit' = IF d.ok THEN exit ELSE 65
    /\ UNCHANGED <<scanner, ps, prog, pc, st>>

\* Resolver::define, after declare (resolve_var_statement, resolve_func,
\* resolve_func_statement, resolve_class_decl), and the insertion of "this"
\* into the scope resolve_class_decl has just begun.
Define(name) ==
    /\ phase = "resolver"
    /\ rs.scopes # <<>>
    /\ \/ name \in DOMAIN rs.scopes[Len(rs.scopes)]
       \/ name = "this"
    /\ rs' = [define(rs, name) EXCEPT !.log = <<>>]
    /\ UNCHANGED <<scanner, ps, prog, phase, pc, st, exit>>

\* Resolver::resolve_local for a Variable, an Assignment or a This node.
ResolveLocal(expr) ==
    /\ phase = "resolver"
    /\ rs' = resolve_local([rs EXCEPT !.log = <<>>], expr, expr.name)
    /\ UNCHANGED <<scanner, ps, prog, phase, pc, st, exit>>

ResolverNext ==
    \/ BeginScope
    \/ EndScope
    \/ \E name \in Names \ {"this"} : Declare(name)
    \/ \E name \in Names : Define(name)
    \/ \E expr \in ResolveTargets : ResolveLocal(expr)

ResolverSpec == ResolverInit /\ [][ResolverNext]_vars

\* -------------------------------------------------- the scanner, by steps
\* The length of the source texts, in bytes.
MaxSource == 4

\* The bytes of the source texts: a symbol that may be doubled, the slash,
\* a line end, the quote, a digit, the point, a letter and a character that
\* starts no token.
Bytes == {"=", "/", "\n", "\"", "1", ".", "a", "@"}

\* The source texts, as sequences of bytes.
Texts == UNION {[1..n -> Bytes] : n \in 0..MaxSource}

\* '\0', which Scanner::peek and Scanner::peek_next return at the end.
Nul == "\\0"

Digits == {"0", "1", "2", "3", "4", "5", "6", "7", "8", "9"}

DigitValue ==
    [c \in Digits |->
        CASE c = "0" -> 0 [] c = "1" -> 1 [] c = "2" -> 2 [] c = "3" -> 3
          [] c = "4" -> 4 [] c = "5" -> 5 [] c = "6" -> 6 [] c = "7" -> 7
          [] c = "8" -> 8 [] c = "9" -> 9]

Letters ==
    {"a", "b", "c", "d", "e", "f", "g", "h", "i", "j", "k", "l", "m", "n", "o",
     "p", "q", "r", "s", "t", "u", "v", "w", "x", "y", "z", "A", "B", "C", "D",
     "E", "F", "G", "H", "I", "J", "K", "L", "M", "N", "O", "P", "Q", "R", "S",
     "T", "U", "V", "W", "X", "Y", "Z"}

\* char_at (main.rs): the byte at offset n.
char_at(string, n) == string[n + 1]

\* utils::substring: the bytes from offset start up to offset end.
RECURSIVE substring(_, _, _)
substring(string, start, end) ==
    IF start >= end THEN ""
    ELSE string[start + 1] \o substring(string, start + 1, end)

\* char::is_digit(10)
is_digit(c) == c \in Digits

\* utils::is_alpha
is_alpha(c) == c \in Letters \/ c = "_"

\* utils::is_alphanumeric
is_alphanumeric(c) == is_digit(c) \/ is_alpha(c)

\* keywords()
keywords ==
    [x \in {"and", "break", "class", "continue", "else", "false", "for", "fun",
            "if", "nil", "or", "print", "return", "super", "this", "true", "var",
            "while"} |-> TokenTypes[x]]

\* The value of the digits from offset start up to offset end.
RECURSIVE digits_value(_, _, _)
digits_value(string, start, end) ==
    IF start >= end THEN 0
    ELSE digits_value(string, start, end - 1) * 10 + DigitValue[string[end]]

\* The offset of the point in the text of a number, or end for none.
RECURSIVE point_of(_, _, _)
point_of(string, start, end) ==
    IF start >= end \/ string[start + 1] = "." THEN start
    ELSE point_of(string, start + 1, end)

\* The end of the digits from start up to end without the zeros at the end.
RECURSIVE trimmed(_, _, _)
trimmed(string, start, end) ==
    IF end > start /\ string[end] = "0" THEN trimmed(string, start, end - 1)
    ELSE end

\* str::parse::<f64> on digits with or without a fraction: the integer, or
\* the whole part and the digits of the fraction.
parse_f64(string, start, end) ==
    LET p == point_of(string, start, end)
        e == trimmed(string, p + 1, end)
    IN  IF p >= end \/ e <= p + 1 THEN digits_value(string, start, p)
        ELSE [whole |-> digits_value(string, start, p),
              fraction |-> substring(string, p + 1, e)]

\* Scanner::new.  errs is standard error; log is history.
Scanner_new(source) ==
    [source |-> source, tokens |-> <<>>, start |-> 0, current |-> 0, line |-> 1,
     had_error |-> FALSE, errs |-> <<>>, log |-> <<>>]

\* Scanner::is_at_end
Scanner_is_at_end(sc) == sc.current >= Len(sc.source)

\* Scanner::peek
Scanner_peek(sc) ==
    IF Scanner_is_at_end(sc) THEN Nul ELSE char_at(sc.source, sc.current)

\* Scanner::peek_next
peek_next(sc) ==
    IF sc.current + 1 >= Len(sc.source) THEN Nul
    ELSE char_at(sc.source, sc.current + 1)

\* Scanner::advance; the character returned is the one at the old current.
Scanner_advance(sc) == [sc EXCEPT !.current = @ + 1]

\* Scanner::match_char
match_char(sc, expected) ==
    IF Scanner_is_at_end(sc) THEN [matched |-> FALSE, sc |-> sc]
    ELSE IF char_at(sc.source, sc.current) # expected
    THEN [matched |-> FALSE, sc |-> sc]
    ELSE [matched |-> TRUE, sc |-> [sc EXCEPT !.current = @ + 1]]

\* Scanner::add_token_to_list
add_token_to_list(sc, token_type, literal) ==
    [sc EXCEPT !.tokens =
        Append(@, Token(token_type, substring(sc.source, sc.start, sc.current),
                        literal, sc.line))]

\* Scanner::add_token
add_token(sc, token_type) == add_token_to_list(sc, token_type, Literal_Null)

\* ScannerError::report with an empty where_
ScannerError_report(line, message) ==
    "[line " \o ToString(line) \o "] Error: " \o message

\* Scanner::error
Scanner_error(sc, line, message) ==
    [sc EXCEPT !.had_error = TRUE,
               !.errs = Append(@, ScannerError_report(line, message))]

\* History only: what was wrong with the token that begins at start.
scan_event(sc, ev) ==
    [sc EXCEPT !.log = Append(@, [ev |-> ev, at |-> sc.start, line |-> sc.line])]

\* The arms of Scanner::scan_token for ! = < >
double_symbol(sc, single, double) ==
    Then(match_char(sc, "="), LAMBDA m :
         add_token(m.sc, IF m.matched THEN double ELSE single))

\* The loop over a comment in Scanner::scan_token
RECURSIVE comment_loop(_)
comment_loop(sc) ==
    IF Scanner_peek(sc) # "\n" /\ ~ Scanner_is_at_end(sc)
    THEN comment_loop(Scanner_advance(sc))
    ELSE sc

\* The arm of Scanner::scan_token for /
slash(sc) ==
    Then(match_char(sc, "/"), LAMBDA m :
         IF m.matched THEN comment_loop(m.sc) ELSE add_token(sc, "SLASH"))

\* The loop of Scanner::string
RECURSIVE string_loop(_)
string_loop(sc) ==
    IF Scanner_peek(sc) # "\"" /\ ~ Scanner_is_at_end(sc)
    THEN string_loop(Scanner_advance(
             [sc EXCEPT !.line = IF Scanner_peek(sc) = "\n" THEN @ + 1 ELSE @]))
    ELSE sc

\* Scanner::string after the closing quote
string_token(sc) ==
    add_token_to_list(sc, "STRING",
        Literal_String(substring(sc.source, sc.start + 1, sc.current - 1)))

\* Scanner::string after the loop
string_end(sc) ==
    IF Scanner_is_at_end(sc)
    THEN Scanner_error(scan_event(sc, "unterminated"), sc.line, "Unterminated string.")
    ELSE string_token(Scanner_advance(sc))

\* Scanner::string
string(sc) == string_end(string_loop(sc))

\* The loops over digits in Scanner::number
RECURSIVE digits_loop(_)
digits_loop(sc) ==
    IF is_digit(Scanner_peek(sc)) THEN digits_loop(Scanner_advance(sc)) ELSE sc

\* The fraction in Scanner::number
number_fraction(sc) ==
    IF Scanner_peek(sc) = "." /\ is_digit(peek_next(sc))
    THEN digits_loop(Scanner_advance(sc))
    ELSE sc

\* The token of Scanner::number
number_token(sc) ==
    add_token_to_list(sc, "NUMBER",
                      Literal_Float(parse_f64(sc.source, sc.start, sc.current)))

\* Scanner::number
number(sc) == number_token(number_fraction(digits_loop(sc)))

\* The loop of Scanner::identifier
RECURSIVE identifier_loop(_)
identifier_loop(sc) ==
    IF is_alphanumeric(Scanner_peek(sc)) THEN identifier_loop(Scanner_advance(sc))
    ELSE sc

\* The token of Scanner::identifier
identifier_token(sc, text) ==
    add_token(sc, IF text \in DOMAIN keywords THEN keywords[text] ELSE "IDENTIFIER")

\* Scanner::identifier
identifier(sc) ==
    Then(identifier_loop(sc), LAMBDA s :
         identifier_token(s, substring(s.source, s.start, s.current)))

\* A variant of unexpected_character that ends the scan.
unexpected_character_stop(sc, c) ==
    [Scanner_error(scan_event(sc, "unexpected"), sc.line,
                   "Unexpected character: " \o c)
     EXCEPT !.current = Len(sc.source)]

\* The default arm of Scanner::scan_token for a character that is no letter.
unexpected_character(sc, c) ==
    Scanner_error(scan_event(sc, "unexpected"), sc.line,
                  "Unexpected character: " \o c)

\* The match of Scanner::scan_token on the character c, after advance.
scan_character(sc, c) ==
    CASE c \in {"(", ")", "{", "}", ",", ".", "-", "+", ";", "*"} ->
             add_token(sc, TokenTypes[c])
      [] c = "!" -> double_symbol(sc, "BANG", "BANG_EQUAL")
      [] c = "=" -> double_symbol(sc, "EQUAL", "EQUAL_EQUAL")
      [] c = "<" -> double_symbol(sc, "LESS", "LESS_EQUAL")
      [] c = ">" -> double_symbol(sc, "GREATER", "GREATER_EQUAL")
      [] c = "/" -> slash(sc)
      [] c \in {" ", "\r", "\t"} -> sc
      [] c = "\n" -> [sc EXCEPT !.line = @ + 1]
      [] c = "\"" -> string(sc)
      [] c \in Digits -> number(sc)
      [] OTHER -> IF is_alpha(c) THEN identifier(sc) ELSE unexpected_character(sc, c)

\* Scanner::scan_token; it returns Ok(()) on every path.
scan_token(sc) ==
    scan_character(Scanner_advance(sc), char_at(sc.source, sc.current))

\* The loop of Scanner::scan_tokens
RECURSIVE scan_loop(_)
scan_loop(sc) ==
    IF Scanner_is_at_end(sc) THEN sc
    ELSE scan_loop(scan_token([sc EXCEPT !.start = sc.current]))

\* Scanner::scan_tokens after the loop
scan_end(sc) ==
    [sc EXCEPT !.tokens = Append(@, Token("EOF", "", Literal_Null, sc.line))]

\* Scanner::scan_tokens
scan_tokens(sc) == scan_end(scan_loop(sc))

\* Lox::tokenize after Scanner::new
ScannerInit ==
    /\ scanner \in {Scanner_new(source) : source \in Texts}
    /\ ps = Parser_new(<<>>)
    /\ prog = <<>>
    /\ phase = "scanner"
    /\ pc = 0
    /\ st = Interpreter_new
    /\ rs = Resolver_new
    /\ exit = -1

\* One turn of the loop of Scanner::scan_tokens
ScanToken ==
    /\ phase = "scanner"
    /\ ~ Scanner_is_at_end(scanner)
    /\ scanner' = scan_token([scanner EXCEPT !.start = scanner.current])
    /\ UNCHANGED <<ps, prog, phase, pc, st, rs, exit>>

\* Scanner::scan_tokens after the loop: the EOF token
ScanEnd ==
    /\ phase = "scanner"
    /\ Scanner_is_at_end(scanner)
    /\ scanner' = scan_end(scanner)
    /\ phase' = "tokens"
    /\ UNCHANGED <<ps, prog, pc, st, rs, exit>>

\* Lox::tokenize after the tokens are printed
Tokenized ==
    /\ phase = "tokens"
    /\ phase' = IF scanner.had_error THEN "exit" ELSE "done"
    /\ exit' = IF scanner.had_error THEN 65 ELSE 0
    /\ UNCHANGED <<scanner, ps, prog, pc, st, rs>>

ScannerNext == ScanToken \/ ScanEnd \/ Tokenized

ScannerSpec == ScannerInit /\ [][ScannerNext]_vars

\* ------------------------------------------------------------------ history
\* The events of a log that satisfy a condition, as a set of indices.
Events(log, kind) == {i \in DOMAIN log : log[i].ev = kind}

\* ------------------------------------------------------------- properties
\* C4: resolve_local records for the node the number of scopes between the
\* innermost scope and the nearest scope holding the name (0 for the current
\* scope), and leaves the depth map as it was when no scope holds the name.
C4_Hits(e) == {i \in DOMAIN e.scopes : e.name \in DOMAIN e.scopes[i]}
C4_Nearest(e) == CHOOSE i \in C4_Hits(e) : \A j \in C4_Hits(e) : j <= i
C4_ResolveLocalRecordsNearest ==
    \A i \in Events(rs.log, "resolve") :
        LET e == rs.log[i]
        IN  IF C4_Hits(e) = {}
            THEN rs.locals = e.before
            ELSE /\ locals_get(rs.locals, e.key) = Len(e.scopes) - C4_Nearest(e)
                 /\ \A j \in DOMAIN rs.locals :
                       rs.locals[j].key # e.key => rs.locals[j] \in
                          {e.before[k] : k \in DOMAIN e.before}

\* A name held by the outermost scope only is recorded at the distance to
\* that scope.
C4_Witness ==
    /\ phase = "resolver"
    /\ \E i \in Events(rs.log, "resolve") :
          /\ Len(rs.log[i].scopes) = MaxScopes
          /\ C4_Hits(rs.log[i]) = {1}
          /\ locals_get(rs.locals, rs.log[i].key) = MaxScopes - 1

\* The last event of a kind before position i that satisfies want: 0 if none.
LastWrite(log, i, env, name) ==
    LET w == {j \in Events(log, "write") :
                 j < i /\ log[j].env = env /\ log[j].name = name}
    IN  IF w = {} THEN 0 ELSE CHOOSE j \in w : \A k \in w : k <= j

\* C1: evaluating a Variable or This node reads the binding the resolver
\* chose: the environment depth hops from the current one when the depth map
\* has the node, the globals otherwise; so a reference in a function body
\* reads the same declaration on every call.
C1_ReadsResolvedBinding ==
    \A i \in Events(st.log, "read") :
        LET e == st.log[i]
            d == locals_get(st.locals, e.key)
        IN  e.env = IF d >= 0 THEN EnvCell_ancestor(st, e.cur, d) ELSE st.globals

\* C2: the depth map holds an entry of its own for every node: after the
\* resolution each resolved node's entry is the depth recorded for that
\* node, and the evaluator assigns at the depth recorded for the node.
C2_DepthPerNode ==
    /\ \A i \in Events(rs.log, "resolve") :
          locals_get(rs.locals, rs.log[i].key) = rs.log[i].depth
    /\ \A i \in Events(st.log, "assign") : \A j \in Events(rs.log, "resolve") :
          rs.log[j].id = st.log[i].id => st.log[i].distance = rs.log[j].depth

\* C3: for a node annotated with depth d the environment d hops from the
\* current one exists and holds the name, so get_at never aborts, and the
\* value read is the one last written to the name in that scope; also after
\* loops left by break or continue.
C3_GetAtNeverAborts ==
    /\ Events(st.log, "get_at_panic") = {}
    /\ \A i \in Events(st.log, "read") :
          LET e == st.log[i]
              w == LastWrite(st.log, i, e.env, e.name)
          IN  (e.kind = "This" /\ locals_get(st.locals, e.key) >= 0) =>
                 /\ w # 0
                 /\ e.v.kind # "Instance" => e.v = st.log[w].v

\* C5: a Block leaves the evaluator's current environment the one that was
\* current before it, however the block was left.
C5_BlockRestores ==
    \A i \in Events(st.log, "block") : st.log[i].after = st.log[i].previous

\* C6: closures share their defining environment by identity: a function's
\* closure is the environment its declaration was executed in, a call's
\* environment encloses it, a variable read returns the value last written to
\* the name in the environment it is found in, and the counter of scenario 3
\* prints 1, 2, 3 (an assignment in f reaches later calls of f; an assignment
\* outside f or through another closure reaches f).
C6_ClosuresShareScope ==
    /\ \A i \in Events(st.log, "fun") : st.log[i].closure = st.log[i].env
    /\ \A i \in Events(st.log, "call") : st.log[i].enclosing = st.log[i].closure
    /\ \A i \in Events(st.log, "read") :
          LET e == st.log[i]
              w == LastWrite(st.log, i, e.env, e.name)
          IN  e.kind = "Variable" =>
                 /\ w # 0
                 /\ e.v.kind # "Instance" => e.v = st.log[w].v
    /\ \A k \in 1..MaxCalls :
          /\ (prog = CounterProgram(k) /\ phase = "done") =>
                st.out = [j \in 1..k |-> ToString(j)]
          /\ (prog = SharedProgram(k) /\ phase = "done") =>
                st.out = <<ToString(k), "10">>

\* The counter was called MaxCalls times and printed 1 .. MaxCalls.
C6_Witness ==
    /\ prog = CounterProgram(MaxCalls)
    /\ phase = "done"
    /\ st.out = [j \in 1..MaxCalls |-> ToString(j)]
    /\ \E i \in Events(st.log, "call") :
          st.log[i].name = "count" /\ st.log[i].closure # st.globals

\* C7: instances are shared, not copied: a field written through any holder
\* of an instance (a variable it was copied to, or this in a method called
\* on it) is the field's value in every global variable holding that
\* instance.
C7_InstancesShared ==
    \A i \in Events(st.log, "set") :
        LET e == st.log[i]
            last == \A j \in Events(st.log, "set") :
                       (st.log[j].oid = e.oid /\ st.log[j].name = e.name) => j <= i
        IN  last =>
            \A n \in DOMAIN st.envs[st.globals].values :
                LET v == st.cells[st.envs[st.globals].values[n]]
                IN  (v.kind = "Instance" /\ v.oid = e.oid) =>
                       /\ e.name \in DOMAIN v.fields
                       /\ e.v.kind # "Instance" => v.fields[e.name] = e.v

\* C8: a call of a class constructs one new instance; with an init, init is
\* bound to it and executed exactly once with the arguments, and the call's
\* value is that instance with every field init stored on this; without an
\* init the value is a field-less instance.  The class takes as many
\* arguments as init has parameters, or none.
C8_ClassCall ==
    \A i \in Events(st.log, "new") :
        LET e == st.log[i]
            inits == {j \in Events(st.log, "call") : st.log[j].act = e.init_act}
            stored == {j \in Events(st.log, "set") :
                          st.log[j].act = e.init_act /\ st.log[j].cell = e.this_cell}
        IN  /\ \A j \in Events(st.log, "new") : j # i => st.log[j].oid # e.oid
            /\ Len(e.arguments) =
                  IF e.has_init
                  THEN Len(e.class.methods["init"].declaration.params)
                  ELSE 0
            /\ e.has_init =>
                  /\ Cardinality(inits) = 1
                  /\ \A j \in inits :
                        /\ st.log[j].name = "init"
                        /\ st.log[j].is_initializer
                        /\ st.log[j].arguments = e.arguments
            /\ e.tag = "Ok" =>
                  /\ e.value.kind = "Instance"
                  /\ e.value.class = e.class
                  /\ e.value.oid = e.oid
                  /\ IF e.has_init
                     THEN /\ e.value = e.this_final
                          /\ \A j \in stored :
                                st.log[j].name \in DOMAIN e.value.fields
                     ELSE DOMAIN e.value.fields = {}

\* A class with init(x) was called with 7 and the value carries x = 7 and
\* y = 2; a class without init was called.
C8_Witness ==
    /\ \E i \in Events(st.log, "new") :
          /\ st.log[i].has_init
          /\ st.log[i].tag = "Ok"
          /\ st.log[i].arguments = <<Double(7)>>
          /\ DOMAIN st.log[i].value.fields = {"x", "y"}
          /\ st.log[i].value.fields["x"] = Double(7)
    /\ phase = "done"

\* C9: a call of a function that is no initializer has the value the return
\* signal carried, or Nil when the body fell through; a call of an
\* initializer (a method named init) has the instance bound as this, on
\* fall-through and on a bare return.
C9_ReturnProtocol ==
    \A i \in Events(st.log, "call") :
        LET e == st.log[i]
        IN  /\ e.is_initializer => e.name = "init"
            /\ e.outcome \in {"fall", "Return"} =>
                  /\ e.tag = "Ok"
                  /\ e.value = IF e.is_initializer THEN e.this
                               ELSE IF e.outcome = "Return" THEN e.signal
                               ELSE Nil
                  /\ e.is_initializer => e.value.kind = "Instance"

\* An initializer was left by a bare return and by fall-through, a function
\* by return with a value and by fall-through.
C9_Witness ==
    /\ \E i \in Events(st.log, "call") :
          /\ st.log[i].is_initializer
          /\ st.log[i].outcome = "Return"
          /\ st.log[i].value.kind = "Instance"
          /\ st.log[i].value.fields["x"] = Double(8)
    /\ st.out = <<"7", "8">>

\* C10: a body runs in a fresh environment that encloses the closure and
\* binds each parameter to its argument; when the call ends, by return, by
\* fall-through or by a runtime error, the current environment is the one
\* that was current before the call, whatever blocks were open in the body.
C10_CallFrame ==
    \A i \in Events(st.log, "call") :
        LET e == st.log[i]
        IN  /\ e.enclosing = e.closure
            /\ \A j \in DOMAIN st.log :
                  (j # i /\ st.log[j].ev \in {"call", "block", "bind"}) =>
                     st.log[j].env # e.env
            /\ e.env \notin {e.previous, e.closure}
            /\ DOMAIN e.bound = {e.params[k] : k \in DOMAIN e.params}
            /\ Len(e.arguments) = Len(e.params)
            /\ \A k \in DOMAIN e.params : e.bound[e.params[k]] = e.arguments[k]
            /\ e.after = e.previous

\* A call ended by a runtime error raised inside MaxDepth open blocks, made
\* from a block, and the current environment is that block again.
C10_Witness ==
    \E i \in Events(st.log, "call") :
        /\ st.log[i].outcome = "Std"
        /\ st.log[i].body_end \notin {st.log[i].env, st.log[i].previous}
        /\ st.log[i].previous # st.globals
        /\ st.log[i].after = st.log[i].previous
        /\ prog = ErrorProgram(MaxDepth)


\* The lines "1", .., "m".
Echoed(m) == [j \in 1..m |-> ToString(j)]

\* The run is over.
Ended == phase \in {"done", "exit", "panic"}

\* C11: a Call evaluates the callee, then the arguments left to right, then
\* checks that the callee is callable, then the argument count; a callee
\* that is not callable fails with "Can only call functions and classes", a
\* count that differs from the arity fails with "Expected N arguments but
\* got M." and in both cases no function body is entered and nothing is
\* written; a function that passes both checks is entered once with the
\* arguments.
C11_CallChecks ==
    /\ \A i \in Events(st.log, "apply") :
          LET e == st.log[i]
              callable == e.callee.kind \in {"NativeFn", "Function", "Class"}
              arity == CASE e.callee.kind = "Function" ->
                               Len(e.callee.declaration.params)
                         [] e.callee.kind = "Class" ->
                               IF "init" \in DOMAIN e.callee.methods
                               THEN Len(e.callee.methods["init"].declaration.params)
                               ELSE 0
                         [] OTHER -> 0
          IN  /\ ~ callable =>
                    /\ e.tag = "Err"
                    /\ e.message = "Can only call functions and classes"
                    /\ e.acts_after = e.acts /\ e.out_after = e.out
              /\ callable /\ Len(e.arguments) # arity =>
                    /\ e.tag = "Err"
                    /\ e.message = "Expected " \o ToString(arity)
                           \o " arguments but got " \o ToString(Len(e.arguments)) \o "."
                    /\ e.acts_after = e.acts /\ e.out_after = e.out
              /\ e.callee.kind = "Function" /\ Len(e.arguments) = arity =>
                    \E j \in Events(st.log, "call") :
                        /\ j < i
                        /\ st.log[j].act = e.acts
                        /\ st.log[j].arguments = e.arguments
    /\ \A m \in 0..MaxCalls :
          prog = ArityProgram(m) /\ Ended =>
              /\ st.out = Echoed(m) \o (IF m = 2 THEN <<"body">> ELSE <<>>)
              /\ exit = IF m = 2 THEN 0 ELSE 70
    /\ prog = NotCallableProgram /\ Ended =>
          st.out = <<"0", "1", "2">> /\ exit = 70

\* f(g(1)) with f of two parameters: 1 was printed, the count was refused,
\* the body of f was not entered.
C11_Witness ==
    /\ prog = ArityProgram(1)
    /\ phase = "exit"
    /\ st.out = <<"1">>
    /\ \E i \in Events(st.log, "apply") :
          st.log[i].message = "Expected 2 arguments but got 1."


\* The events of a loop: a condition test, a signal raised, a signal caught.
LoopEvents == {"test", "raise", "caught"}

\* What LoopsProgram(kind, n) has to print: per iteration of the outer loop
\* "in" once (break) or twice (continue), then i.
RECURSIVE LoopsOutput(_, _)
LoopsOutput(kind, n) ==
    IF n = 0 THEN <<>>
    ELSE LoopsOutput(kind, n - 1)
         \o (IF kind = "Break" THEN <<"in">> ELSE <<"in", "in">>)
         \o <<ToString(n)>>

\* C12: a break or continue raised inside a loop of the current activation
\* is caught by the innermost loop being executed, with nothing executed in
\* between; after a break that loop tests its condition no more (and the
\* enclosing loop goes on with the statements after it), after a continue
\* the next thing that loop does is test its condition.
C12_LoopSignals ==
    /\ \A i \in Events(st.log, "raise") :
          LET e == st.log[i]
          IN  e.loop # 0 /\ e.loop_act = e.act =>
                 \E j \in Events(st.log, "caught") :
                    /\ j > i
                    /\ st.log[j].kind = e.kind
                    /\ st.log[j].loop = e.loop
                    /\ st.log[j].out = e.out
                    /\ \A k \in (i + 1)..(j - 1) : st.log[k].ev = "block"
                    /\ e.kind = "Break" =>
                          \A k \in Events(st.log, "test") :
                              k > j => st.log[k].loop # e.loop
                    /\ e.kind = "Continue" =>
                          \A k \in (j + 1)..Len(st.log) :
                              /\ st.log[k].ev \in LoopEvents
                              /\ \A l \in (j + 1)..(k - 1) : st.log[l].ev \notin LoopEvents
                              => st.log[k].ev = "test" /\ st.log[k].loop = e.loop
    /\ \A k \in {"Break", "Continue"}, n \in 1..2 :
          prog = LoopsProgram(k, n) /\ Ended =>
              st.out = LoopsOutput(k, n) /\ exit = 0
    /\ prog = SkipProgram /\ Ended => st.out = <<"1", "3">> /\ exit = 0

\* The inner loop was left by break twice and the outer loop went on.
C12_Witness ==
    /\ prog = LoopsProgram("Break", 2)
    /\ phase = "done"
    /\ st.out = <<"in", "1", "in", "2">>
    /\ Cardinality({i \in Events(st.log, "caught") : st.log[i].kind = "Break"}) = 2


\* The position of the identifier the condition i < 3 reads: the id of its
\* node.
ConditionNode(tokens) ==
    CHOOSE p \in 1..(Len(tokens) - 1) :
        tokens[p].token_type = "IDENTIFIER" /\ tokens[p + 1].token_type = "LESS"

\* C13: var x = 0; for (var i = 0; i < 3; i = i + 1) { if (i == 1) continue;
\* x = x + i; } print x; terminates and prints 2 (and 3 without the if
\* statement): no condition test finds the loop variable where the test
\* before found it, the loop is over after three iterations, and the run
\* ends with the sum printed.
C13_ForContinue ==
    \A c \in BOOLEAN :
        scanner = ForSource(c) =>
            /\ phase # "cut"
            /\ Ended => st.out = <<IF c THEN "2" ELSE "3">> /\ exit = 0
            /\ \A a, b \in Events(st.log, "read") :
                  /\ a < b
                  /\ st.log[a].id = ConditionNode(scanner.tokens)
                  /\ st.log[b].id = ConditionNode(scanner.tokens)
                  => st.log[a].v.n < st.log[b].v.n


\* The loop bodies open when the parser is at event k of its history: those
\* entered and not left.
Enclosing(log, k) ==
    Cardinality({j \in 1..(k - 1) : log[j].ev = "enter"})
    - Cardinality({j \in 1..(k - 1) : log[j].ev = "leave"})

\* The report of a jump statement outside a loop
JumpReport(token) ==
    "[line " \o ToString(token.line) \o "] Error at '" \o token.lexeme
    \o "': Must be inside a loop to use '" \o token.lexeme \o "'."

\* C14: the parser's loop-depth counter is, at every statement and at every
\* break or continue of a parse, the number of while/for bodies that
\* enclose the token; it is 0 after a successful parse; a break or continue
\* met with the counter at 0 is a parse error (reported, exit code 65,
\* nothing parsed after it) and one met with a positive counter is
\* accepted.
C14_LoopDepth ==
    /\ \A k \in DOMAIN ps.log :
          ps.log[k].ev \in {"statement", "jump"} =>
              ps.log[k].loop_depth = Enclosing(ps.log, k)
    /\ phase \in {"parsed", "interpret", "done", "panic", "cut"} =>
          /\ ps.loop_depth = 0
          /\ Enclosing(ps.log, Len(ps.log) + 1) = 0
    /\ \A k \in DOMAIN ps.log :
          ps.log[k].ev = "jump" =>
              /\ ps.log[k].accepted = (ps.log[k].loop_depth > 0)
              /\ ~ ps.log[k].accepted =>
                    /\ k = Len(ps.log)
                    /\ phase = "exit" /\ exit = 65
                    /\ ps.errs = <<JumpReport(ps.tokens[ps.log[k].at])>>
              /\ ps.log[k].accepted =>
                    \A i \in DOMAIN ps.errs :
                        ps.errs[i] # JumpReport(ps.tokens[ps.log[k].at])

\* A parse that met a jump under two loop bodies and one under one, and a
\* parse that met one under none.
C14_Witness ==
    \/ /\ phase = "parsed"
       /\ \E j, k \in DOMAIN ps.log :
             /\ ps.log[j].ev = "jump" /\ ps.log[j].loop_depth = 2
             /\ ps.log[k].ev = "jump" /\ ps.log[k].loop_depth = 1
             /\ j < k
    \/ /\ phase = "exit"
       /\ \E j, k \in DOMAIN ps.log :
             /\ ps.log[j].ev = "leave" /\ ps.log[k].ev = "jump" /\ j < k
             /\ ~ ps.log[k].accepted


\* C15: in a program the parser and the resolver accepted, a Break or
\* Continue signal is raised under a loop that the same function activation
\* is executing and is caught by a loop before any call returns: no call
\* ends with a signal, none is reported as a runtime error.
C15_SignalsStayInActivation ==
    /\ \A i \in Events(st.log, "raise") :
          /\ st.log[i].loop # 0
          /\ st.log[i].loop_act = st.log[i].act
          /\ phase \in {"done", "exit", "panic"} =>
                \E j \in Events(st.log, "caught") :
                    /\ j > i
                    /\ st.log[j].act = st.log[i].act
                    /\ \A k \in (i + 1)..(j - 1) : st.log[k].ev = "block"
    /\ \A i \in DOMAIN st.errs :
          st.errs[i] \notin {"'BREAK' value error detected", "Continue"}


\* What print writes for the value of a literal token
Shown(token) ==
    CASE token.token_type = "NIL" -> "nil"
      [] token.token_type = "FALSE" -> "false"
      [] token.token_type = "TRUE" -> "true"
      [] token.token_type = "NUMBER" -> ToString(token.literal.n)
      [] token.token_type = "STRING" -> token.literal.s

\* nil and false are falsy, every other value is truthy.
Truthy(token) == token.token_type \notin {"NIL", "FALSE"}

\* C16: in print g(a) or g(b); with g printing and returning its argument,
\* g(b) is not called when a is truthy and the value of a is printed as the
\* result, otherwise g(b) is called once after g(a) and the value of b is
\* the result; in print g(a) and g(b); the same with a falsy.  The result
\* is the operand's value, not a boolean made of it.
C16_ShortCircuit ==
    \A w \in {"or", "and"}, a \in Operands, b \in Operands :
        scanner = LogicalSource(w, a, b) /\ Ended =>
            /\ phase = "done" /\ exit = 0
            /\ st.out = IF Truthy(a) = (w = "or")
                        THEN <<Shown(a), Shown(a)>>
                        ELSE <<Shown(a), Shown(b), Shown(b)>>
            /\ Cardinality(Events(st.log, "call"))
                  = IF Truthy(a) = (w = "or") THEN 1 ELSE 2

\* g(0) or g(nil) gave 0 and g(nil) and g(0) gave nil, g being called
\* once.
C16_Witness ==
    /\ phase = "done"
    /\ \/ /\ scanner = LogicalSource("or", N(0), K("nil"))
          /\ st.out = <<"0", "0">>
       \/ /\ scanner = LogicalSource("and", K("nil"), N(0))
          /\ st.out = <<"nil", "nil">>


\* An error was reported by the scanner, the parser or the resolver.
Reported == scanner.had_error \/ ps.had_error \/ ps.errs # <<>> \/ rs.errs # <<>>

\* C17: once a scan, parse or resolve error was reported (the error for a
\* 256th argument included) no statement is executed: nothing is
\* interpreted, nothing is written, and the run ends with exit code 65.
C17_NoRunAfterError ==
    Reported =>
        /\ phase \in {"scanned", "parsed", "exit"}
        /\ pc = 1
        /\ st.out = <<>>
        /\ phase = "exit" => exit = 65


\* C18: after a parse error the parser skips to the next statement and goes
\* on, so that of var 1; var 2; both errors are reported: the error at 1 and
\* the error at 2 are on standard error, and the parser has got at least
\* as far as Parser::synchronize takes it from the first error (to the
\* second var).
C18_Synchronizes ==
    scanner = TwoErrorsSource /\ Ended =>
        /\ exit = 65
        /\ \E i \in DOMAIN ps.errs :
              ps.errs[i] = "[line 1] Error at '1': Expect variable name."
        /\ \E i \in DOMAIN ps.errs :
              ps.errs[i] = "[line 2] Error at '2': Expect variable name."
        /\ ps.current >= synchronize(ps).current


\* C19: var a = a; in a local scope is the resolve error Can't read local
\* variable in its own initializer (exit code 65, nothing executed), with or
\* without an a declared outside; at global level it is no resolve error.
\* No read of a variable is resolved while the innermost scope holds the
\* name as declared and not yet defined, so the name is defined only after
\* its initializer; a parameter read in the body of its function or method
\* is defined by then.
C19_OwnInitializer ==
    /\ \A i \in Events(rs.log, "resolve") :
          LET e == rs.log[i]
          IN  /\ e.key.kind = "Variable"
              /\ e.scopes # <<>>
              /\ e.name \in DOMAIN e.scopes[Len(e.scopes)]
              => e.scopes[Len(e.scopes)][e.name]
    /\ \A o \in BOOLEAN, d \in 1..MaxDepth :
          scanner = OwnInitializerSource(o, d) /\ phase \notin {"scanned", "parsed"} =>
              /\ phase = "exit" /\ exit = 65
              /\ rs.errs = <<"Can't read local variable in its own initializer">>
              /\ pc = 1 /\ st.out = <<>>
    /\ \A o \in BOOLEAN :
          scanner = OwnInitializerSource(o, 0) /\ Ended =>
              /\ rs.errs = <<>>
              /\ IF o THEN phase = "done" /\ st.out = <<"1">> ELSE exit = 70
    /\ scanner \in {OtherInitializerSource, ParameterSource, MethodParameterSource}
       /\ Ended =>
          /\ rs.errs = <<>>
          /\ phase = "done" /\ st.out = <<"1">>
          /\ \E i \in Events(rs.log, "resolve") :
                /\ rs.log[i].name = "a" /\ rs.log[i].key.kind = "Variable"
                /\ rs.log[i].depth
                      = IF scanner = OtherInitializerSource THEN 1 ELSE 0
                /\ rs.log[i].scopes[Len(rs.log[i].scopes) - rs.log[i].depth]["a"]

\* var a = 1; { { var a = a; print a; } } was rejected by the resolver.
C19_Witness ==
    /\ scanner = OwnInitializerSource(TRUE, 2)
    /\ phase = "exit"
    /\ rs.errs = <<"Can't read local variable in its own initializer">>


\* C20: a second declaration of a name (variable, function, class,
\* parameter) in the same local scope is the resolve error Already a
\* variable with this name in this scope (exit code 65, nothing executed);
\* the second declaration in a scope of its own inside the first one's, and
\* two declarations at global level, are accepted and the program runs.
C20_Redeclaration ==
    /\ \A k1 \in {"var", "fun", "class"}, k2 \in {"var", "fun", "class"},
          d \in 0..MaxDepth, i \in BOOLEAN :
          scanner = RedeclareSource(k1, k2, d, i) /\ Ended =>
              IF d > 0 /\ ~ i
              THEN /\ phase = "exit" /\ exit = 65
                   /\ rs.errs = <<"Already a variable with this name in this scope">>
                   /\ pc = 1 /\ st.out = <<>>
              ELSE /\ phase = "done" /\ exit = 0
                   /\ rs.errs = <<>>
                   /\ st.out = <<"1">>
    /\ scanner = SameParameterSource(FALSE) /\ Ended =>
          /\ phase = "exit" /\ exit = 65
          /\ rs.errs = <<"Already a variable with this name in this scope">>
          /\ pc = 1 /\ st.out = <<>>
    /\ scanner = SameParameterSource(TRUE) /\ Ended =>
          /\ phase = "done" /\ exit = 0
          /\ rs.errs = <<>>
          /\ st.out = <<"1">>

\* { { var a; class a { } } } print 1; was rejected by the resolver.
C20_Witness ==
    /\ scanner = RedeclareSource("var", "class", 2, FALSE)
    /\ phase = "exit"
    /\ rs.errs = <<"Already a variable with this name in this scope">>


\* The function a return statement at the place belongs to: none, an
\* ordinary function or method, or a method named init.
ReturnOwner(context) ==
    CASE context \in {"top", "block", "after function"} -> "none"
      [] context \in {"init", "after function in init"} -> "init"
      [] OTHER -> "function"

\* C21: a return outside every function is the resolve error Can't return
\* from top-level code., a return with a value directly in a method named
\* init is the resolve error Can't return from an initializer. (exit code
\* 65, nothing executed); a bare return in init and every return in an
\* ordinary function or method are accepted and the program runs.  A
\* return after a nested function or class declaration is judged by the
\* function around it.
C21_ReturnRules ==
    \A c \in ReturnContexts, v \in BOOLEAN :
        scanner = ReturnSource(c, v) /\ Ended =>
            IF ReturnOwner(c) = "none" \/ (ReturnOwner(c) = "init" /\ v)
            THEN /\ phase = "exit" /\ exit = 65
                 /\ rs.errs = <<IF ReturnOwner(c) = "none"
                                THEN "Can't return from top-level code."
                                ELSE "Can't return from an initializer.">>
                 /\ pc = 1 /\ st.out = <<>>
            ELSE /\ phase = "done" /\ exit = 0
                 /\ rs.errs = <<>>
                 /\ st.out = <<"1">>

\* fun g() { return 1; } return; was rejected as a return from top-level
\* code.
C21_Witness ==
    /\ scanner = ReturnSource("after function", FALSE)
    /\ phase = "exit"
    /\ rs.errs = <<"Can't return from top-level code.">>


\* The places of a this expression that are inside a class declaration.
ThisInClass ==
    {"method", "init", "function in method", "after class in method"}

\* C22: this outside every class declaration is the resolve error Can't use
\* 'this' outside of a class (exit code 65, nothing executed), also after a
\* class declaration has ended; this in a method, in a function nested in a
\* method, and in a method after a nested class declaration is accepted.
C22_ThisRules ==
    \A c \in ThisContexts :
        scanner = ThisSource(c) /\ Ended =>
            IF c \notin ThisInClass
            THEN /\ phase = "exit" /\ exit = 65
                 /\ rs.errs = <<"Can't use 'this' outside of a class">>
                 /\ pc = 1 /\ st.out = <<>>
            ELSE /\ phase = "done" /\ exit = 0
                 /\ rs.errs = <<>>
                 /\ st.out = <<"1">>

\* class C { m() { } } print this; was rejected.
C22_Witness ==
    /\ scanner = ThisSource("after class")
    /\ phase = "exit"
    /\ rs.errs = <<"Can't use 'this' outside of a class">>


\* C23: a runtime error raised in a statement, also in the body of a
\* function or method, ends the run with exit code 70 and with exactly one
\* report on standard error, the one of the error that was raised: its
\* message and the line of its token.  Nothing after the failing statement
\* is executed.
C23_ErrorsReachTop ==
    /\ \A c \in ErrorContexts :
          scanner = RuntimeErrorSource(c) /\ Ended =>
              /\ phase = "exit" /\ exit = 70
              /\ st.out = <<>>
              /\ st.errs = <<(IF c = "property" THEN "Only instances have properties"
                              ELSE "Operand must be a number.") \o "\n[line 2]">>
    /\ exit = 70 => Len(st.errs) = 1


\* C24: print a / b; with two numbers and b = 0 writes nothing and ends the
\* run with the report Denominator cannot be 0 and exit code 70; with two
\* numbers and b # 0 it prints the quotient and the run goes on; with an
\* operand that is no number it ends the run with the type error and exit
\* code 70.
C24_Division ==
    \A a \in Dividends, b \in Dividends :
        scanner = DivisionSource(a, b) /\ scanner \in DivisionSources /\ Ended =>
            IF a.token_type = "NUMBER" /\ b.token_type = "NUMBER"
            THEN IF b.literal.n = 0
                 THEN /\ phase = "exit" /\ exit = 70
                      /\ st.out = <<>>
                      /\ st.errs = <<"Denominator cannot be 0\n[line 1]">>
                 ELSE /\ phase = "done" /\ exit = 0
                      /\ st.errs = <<>>
                      /\ \E q \in 0..a.literal.n :
                            /\ q * b.literal.n = a.literal.n
                            /\ st.out = <<ToString(q), "1">>
            ELSE /\ phase = "exit" /\ exit = 70
                 /\ st.out = <<>>
                 /\ st.errs = <<"Operands must be a numbers.\n[line 1]">>

\* print 1 / 0; wrote nothing and ended with exit code 70.
C24_Witness ==
    /\ scanner = DivisionSource(N(1), N(0))
    /\ phase = "exit" /\ exit = 70
    /\ st.out = <<>>
    /\ st.errs = <<"Denominator cannot be 0\n[line 1]">>


\* C25: a comparison of two user-defined functions (the same one, two of
\* them, a bound method) prints false for == and true for !=, and so does a
\* comparison of values of different kinds.
C25_FunctionsNeverEqual ==
    \A a \in Comparands, b \in Comparands :
        /\ scanner = EqualitySource(a, b) /\ Ended
        /\ \/ ComparandKind(a) # ComparandKind(b)
           \/ ComparandKind(a) = "Function"
        => /\ phase = "done" /\ exit = 0
           /\ st.out = <<"false", "true">>

\* print d.m == d.m; print d.m != d.m; printed false and true.
C25_Witness ==
    /\ scanner = EqualitySource("d.m", "d.m")
    /\ phase = "done"
    /\ st.out = <<"false", "true">>

\* C29: a comparison of an instance or of a class with itself prints true
\* for == and false for !=, also when the class declares a method.
C29_ReflexiveEquality ==
    \A a \in {"C", "D", "c", "d"} :
        scanner = EqualitySource(a, a) /\ Ended =>
            /\ phase = "done" /\ exit = 0
            /\ st.out = <<"true", "false">>


\* C26: print e; print 1; is accepted for every expression e and writes
\* the formatted value of e and then 1; print nil; prints nil.
C26_PrintEveryExpression ==
    \A e \in Printed :
        scanner = PrintSource(e) /\ Ended =>
            /\ phase = "done" /\ exit = 0
            /\ ps.errs = <<>>
            /\ st.out = <<PrintedValue(e), "1">>


\* C30: a statement that lacks a required expression (var a = ; () ; f(,);
\* x = ;) is reported as a parse error on its line and the run ends with
\* exit code 65 and nothing executed; and every call of primary that
\* returned Ok consumed at least one token.
C30_MissingExpression ==
    /\ \A m \in Missing :
          scanner = MissingSource(m) /\ Ended =>
              /\ phase = "exit" /\ exit = 65
              /\ ps.errs # <<>>
              /\ st.out = <<>>
    /\ \A i \in Events(ps.log, "primary") : ps.log[i].to > ps.log[i].from


\* The tokens with their lines moved down by k.
Shifted(tokens, k) == [i \in DOMAIN tokens |-> [tokens[i] EXCEPT !.line = @ + k]]

\* The tokens of the bytes of source from offset start up to offset end,
\* scanned as a text of their own, with the EOF token.
TokensOf(source, start, end) ==
    scan_tokens(Scanner_new(SubSeq(source, start + 1, end))).tokens

\* The tokens before the EOF token.
BeforeEOF(tokens) == SubSeq(tokens, 1, Len(tokens) - 1)

\* C27: when scan_tokens has returned, the last token and no other is EOF
\* with an empty lexeme; every unexpected character and unterminated string
\* has set the error flag and was reported with its line; the scan went on
\* to the end of the text, and the tokens are those of the text before an
\* unexpected character followed by those of the text after it (on their
\* lines), and those of the text before an unterminated string.
C27_ScanGoesOn ==
    phase # "scanner" =>
        LET tokens == scanner.tokens
            source == scanner.source
        IN  /\ tokens # <<>>
            /\ tokens[Len(tokens)] = Token("EOF", "", Literal_Null, scanner.line)
            /\ \A i \in 1..(Len(tokens) - 1) : tokens[i].token_type # "EOF"
            /\ scanner.current = Len(source)
            /\ scanner.had_error <=> scanner.log # <<>>
            /\ Len(scanner.errs) = Len(scanner.log)
            /\ \A i \in DOMAIN scanner.log :
                  LET e == scanner.log[i]
                  IN  IF e.ev = "unexpected"
                      THEN /\ scanner.errs[i] =
                                "[line " \o ToString(e.line)
                                \o "] Error: Unexpected character: "
                                \o source[e.at + 1]
                           /\ tokens =
                                BeforeEOF(TokensOf(source, 0, e.at))
                                \o Shifted(TokensOf(source, e.at + 1, Len(source)),
                                           e.line - 1)
                      ELSE /\ scanner.errs[i] =
                                "[line " \o ToString(scanner.line)
                                \o "] Error: Unterminated string."
                           /\ tokens =
                                BeforeEOF(TokensOf(source, 0, e.at))
                                \o <<Token("EOF", "", Literal_Null, scanner.line)>>

\* The text @a, a line end and = was scanned: the character @ is reported
\* and the identifier and the symbol after it are tokens.
C27_Witness ==
    /\ phase = "tokens"
    /\ scanner.source = <<"@", "a", "\n", "=">>
    /\ scanner.had_error
    /\ scanner.errs = <<"[line 1] Error: Unexpected character: @">>
    /\ scanner.tokens = <<Token("IDENTIFIER", "a", Literal_Null, 1),
                          Token("EQUAL", "=", Literal_Null, 2),
                          Token("EOF", "", Literal_Null, 2)>>


\* C28: a Set expression on an instance completes for every value
\* expression, also one that reads the instance being assigned: each of the
\* programs ends normally and prints the value stored (3 for print c.n = 3;
\* and 2 for the others).
C28_SetCompletes ==
    \A v \in SetValues :
        scanner = SetSource(v) /\ Ended =>
            /\ phase = "done" /\ exit = 0
            /\ st.errs = <<>>
            /\ st.out = <<IF v = "yield" THEN "3" ELSE "2">>

====
